---- MODULE Spec2Model ----
(***************************************************************************)
(* A model of the autorest-ci worker fleet: the poll loop of the CI worker *)
(* (src/unnamed/part_002, the variant with comment commands, log sink and  *)
(* job deadline), its job executor runJob, and the GitHub client           *)
(* (src/github.ts) through which workers coordinate.                       *)
(*                                                                         *)
(* Every await of the TypeScript code is one action: the remote call takes *)
(* effect and the synchronous code up to the next await runs with it.      *)
(* Any remote call may fail (throw) at any time.                           *)
(***************************************************************************)
EXTENDS Integers, Sequences, FiniteSets, TLC

(***************************************************************************)
(* Bounds of the model.                                                    *)
(***************************************************************************)
\* what the environment does to a fleet, in total: steps of the clock, updates
\* of pull requests, command comments posted
MaxEvents == 1
\* calls that fail, in total
MaxFaults == 2
\* ticks of feedbackTimer during one job, before the deadline of the job
MaxFlushes == 2
\* chunks of output of one command
MaxOutput == 2

(***************************************************************************)
(* Program constants.  Times are in milliseconds, as in the code.          *)
(***************************************************************************)
ciStatusTimeoutMs == 1000 * 60 * 5
timeoutSec == 60 * 30
\* granularity of the model's clock: one step is five minutes
ClockStepMs == 1000 * 60 * 5
\* ms between two values of updated_at that the service hands out
StampStepMs == 1000
ciIdentifier == "linux-x64"
\* command comments start with this prefix
prefix == "> " \o ciIdentifier
commandText == "npm install && npm test"

\* the workerID of each worker process ("CI" + five random characters)
Workers == {"CIaaaaa", "CIbbbbb"}
\* a worker of an earlier run that is no longer alive
DeadWorker == "CIzzzzz"
githubRepos == <<"autorest", "autorest.common">>
RepoSet == {githubRepos[i] : i \in 1..Len(githubRepos)}
\* the commits a pull request's head can be at, oldest first
Commits(r) ==
    [i \in 1..(MaxEvents + 1) |-> (IF r = githubRepos[1] THEN "a" ELSE "b") \o ToString(i)]
AllCommits == UNION {{Commits(r)[i] : i \in 1..Len(Commits(r))} : r \in RepoSet}
PRNumbers == {1}

(***************************************************************************)
(* JavaScript string helpers.                                              *)
(***************************************************************************)
\* s.slice(a, b) for 0 <= a <= b
Slice(s, a, b) == SubSeq(s, a + 1, IF b < Len(s) THEN b ELSE Len(s))
\* s.slice(a)
SliceFrom(s, a) == SubSeq(s, a + 1, Len(s))
\* s.startsWith(p)
StartsWith(s, p) == Len(s) >= Len(p) /\ SubSeq(s, 1, Len(p)) = p
\* x / 1000 | 0
Seconds(ms) == ms \div 1000

\* message.trim(): leading and trailing blanks and newlines removed
RECURSIVE TrimLeft(_)
TrimLeft(s) ==
    IF Len(s) > 0 /\ SubSeq(s, 1, 1) \in {" ", "\n"} THEN TrimLeft(SubSeq(s, 2, Len(s))) ELSE s
RECURSIVE TrimRight(_)
TrimRight(s) ==
    IF Len(s) > 0 /\ SubSeq(s, Len(s), Len(s)) \in {" ", "\n"}
    THEN TrimRight(SubSeq(s, 1, Len(s) - 1)) ELSE s
Trim(s) == TrimRight(TrimLeft(s))

(***************************************************************************)
(* State.                                                                  *)
(***************************************************************************)
VARIABLES
    \* ---- the hosting service and the log sink
    now,          \* Date.now(), in ms
    pulls,        \* repository -> the open pull request as the service holds it
    statuses,     \* commit -> the status of context ciIdentifier (NoStatus if none)
    comments,     \* repository -> the comments of its pull request, in order
    blobs,        \* worker -> the content of the append blob of its latest job
    events,       \* number of steps the environment has taken so far
    \* ---- a worker's poll loop (main)
    fleet,        \* the workers that were started
    repos,        \* the repositories the fleet polls, in order
    pc,           \* worker -> position in main
    ri,           \* worker -> index of the repository being polled
    pr,           \* worker -> the pull request snapshot being handled
    commants,     \* worker -> the command comments still to handle for pr
    knownPRs,     \* worker -> (pull request number -> snapshot, NoPR if absent)
    didAnything,  \* worker -> whether a job ran in this cycle
    delay,        \* worker -> ms of the delay main last started
    during,       \* worker -> (repository -> the ids of the comments main read in this
                  \*   cycle, and the snapshot a job ran for or that was found done,
                  \*   NoPR if none; history)
    before,       \* worker -> the same of the cycle before (history)
    \* ---- a worker's job (runJob)
    jpc,          \* worker -> position in runJob ("none" outside a job)
    via,          \* worker -> what triggered the job: "restart", "fresh" or "stuck"
    error,        \* worker -> result of the command: NoError or an error text
    caught,       \* worker -> the exception caught at the top of runJob
    timeStamp1,   \* worker -> Date.now() when fetching started
    timeStamp2,   \* worker -> Date.now() when the command was started
    timeStamp3,   \* worker -> Date.now() when the command had succeeded
    \* ---- the command of a job and its feedback
    cp,           \* worker -> the child process: "none", "running", "killed", "exited"
    output,       \* worker -> the output captured so far
    lastLength,   \* worker -> length of the output that was uploaded
    mutex,        \* worker -> a tick of feedbackTimer is sending feedback
    feedbackTimer,\* worker -> the interval timer is set
    feedbacks,    \* worker -> the sendFeedback calls awaiting their append, in order
    ticks,        \* worker -> ticks of feedbackTimer before the deadline
    \* ---- what a job did (history, read by the properties only)
    wrote,        \* worker -> arguments of the last status write that succeeded
    pushed,       \* worker -> how the last append of output ended: "none", "ok", "failed"
    aborted,      \* worker -> isLastStatusOurs returned false
    moved,        \* worker -> the position at which wasUpdated returned true ("" if none)
    unnotified,   \* worker -> the write of the stall status failed
    interfered,   \* worker -> another worker wrote a status while the command ran
    \* ---- the command of the publish job (runCommand of the publisher)
    runner,       \* cp, output, cancel, res and the values r was called with
    \* ---- the poll loop of the publisher (main of the publisher)
    publisher,    \* its position pc, the pull request pr at hand, the comments
                  \*   still to delete and knownOpenPRs (number -> comment id)
    \* ---- the supervisor (its jobs, its status loop, parseStatus)
    supervisor,   \* jobs (name -> ManagedChildProcess), the position at of the
                  \*   status loop, and the call of parseStatus under way
    faults        \* number of calls that failed so far

remoteVars == <<now, pulls, statuses, comments, blobs, events>>
loopVars == <<fleet, repos, pc, ri, pr, commants, knownPRs, didAnything, delay, during, before>>
jobVars == <<jpc, via, error, caught, timeStamp1, timeStamp2, timeStamp3>>
runVars == <<cp, output, lastLength, mutex, feedbackTimer, feedbacks, ticks>>
histVars == <<wrote, pushed, aborted, moved, unnotified, interfered>>
vars == <<remoteVars, loopVars, jobVars, runVars, histVars, runner, publisher, supervisor,
          faults>>

NoPR == [number |-> 0, headID |-> "", updatedAt |-> 0]
NoStatus == [state |-> "none", description |-> "", url |-> "", updatedAt |-> 0]
NoError == "null"
NoWrite == [state |-> "none", description |-> ""]
NoOutcome == [pr |-> NoPR, commands |-> <<>>]

(***************************************************************************)
(* The GitHub client of one worker for one repository (src/github.ts).     *)
(***************************************************************************)
statusPrefix(w) == "[" \o w \o "] "

\* (seeded fault) the prefix is put in front of the description cut to 140
sentDescriptionLate(w, description) == statusPrefix(w) \o Slice(description, 0, 140)

\* body.description of setPullRequestStatus
sentDescription(w, description) == Slice(statusPrefix(w) \o description, 0, 140)

\* the statuses after setPullRequestStatus(p, state, description, url) by w
setPullRequestStatus(w, p, state, description, url) ==
    [statuses EXCEPT ![p.headID] =
        [state |-> state,
         description |-> IF description # "" THEN sentDescription(w, description) ELSE "",
         url |-> url,
         updatedAt |-> now]]

getPullRequests(r) == <<pulls[r]>>

getPullRequest(r, number) == pulls[r]

getJobStatus(p) == statuses[p.headID]

\* (seeded fault) the prefix is compared up to the "CI" of the workerID only
isLastStatusOursLoose(w, p) ==
    LET status == getJobStatus(p)
    IN  status # NoStatus /\ StartsWith(status.description, Slice(statusPrefix(w), 0, 3))

\* (seeded fault) any status counts as ours
isLastStatusAnyones(w, p) == getJobStatus(p) # NoStatus

isLastStatusOurs(w, p) ==
    LET status == getJobStatus(p)
    IN  status # NoStatus /\ StartsWith(status.description, statusPrefix(w))

\* (seeded fault) only a new head commit counts as an update
wasUpdatedByHead(r, p) == getPullRequest(r, p.number).headID # p.headID

wasUpdated(r, p) == getPullRequest(r, p.number).updatedAt # p.updatedAt

getComments(r) == comments[r]

\* the comments after setComment(id, message)
setComment(r, id, message) ==
    [comments EXCEPT ![r] =
        [i \in 1..Len(comments[r]) |->
            IF comments[r][i].id = id THEN [id |-> id, message |-> message]
            ELSE comments[r][i]]]

(***************************************************************************)
(* The environment: time passes, authors update pull requests, users post  *)
(* command comments.                                                       *)
(***************************************************************************)
\* the environment takes a step
Event == events < MaxEvents /\ events' = events + 1

\* a call fails
Fault == faults < MaxFaults /\ faults' = faults + 1

Tick ==
    /\ Event
    /\ now' = now + ClockStepMs
    /\ UNCHANGED <<runner, supervisor, publisher, pulls, statuses, comments, blobs, loopVars, jobVars, runVars, histVars, faults>>

NextCommit(r, c) ==
    LET i == CHOOSE k \in 1..Len(Commits(r)) : Commits(r)[k] = c
    IN  Commits(r)[i + 1]

\* the author pushes a commit (push) or edits the pull request (no push); the
\* service stamps the pull request with a later updated_at
UpdatePR(r, push) ==
    /\ Event
    /\ now' = now + StampStepMs
    /\ pulls' = [pulls EXCEPT ![r] =
            [number |-> @.number,
             headID |-> IF push THEN NextCommit(r, @.headID) ELSE @.headID,
             updatedAt |-> now']]
    /\ UNCHANGED <<runner, supervisor, publisher, statuses, comments, blobs, loopVars, jobVars, runVars, histVars, faults>>

\* the id the service gives the next comment
NextCommentId == 1 + Len(comments[githubRepos[1]]) + Len(comments[githubRepos[2]])

UserCommands == {prefix \o " restart", prefix \o " status"}

PostComment(r, message) ==
    /\ Event
    /\ comments' = [comments EXCEPT ![r] = Append(@, [id |-> NextCommentId, message |-> message])]
    /\ UNCHANGED <<runner, supervisor, publisher, now, pulls, statuses, blobs, loopVars, jobVars, runVars, histVars, faults>>

(***************************************************************************)
(* The poll loop: main of src/unnamed/part_002, lines 194-268.             *)
(***************************************************************************)
Repo(w) == repos[ri[w]]

\* (seeded fault) the acknowledgement is written without its code fence
restartDoneBare == prefix \o " restart\n< done\n"

restartDone == "~~~\n" \o prefix \o " restart\n< done\n~~~\n"
\* (the code quotes the command in backticks, written ' here)
commandHelp ==
    "# CI command help\n\n| Comment | Effect |\n| --- | --- |\n| '"
        \o prefix \o " restart' | restarts job |\n"

\* comments.filter(x => x.message.startsWith(prefix))
CommandComments(cs) == SelectSeq(cs, LAMBDA x : StartsWith(x.message, prefix))

\* (seeded fault) the command is not trimmed
CommandOfUntrimmed(commant) == SliceFrom(commant.message, Len(prefix))

\* commant.message.slice(prefix.length).trim()
CommandOf(commant) == Trim(SliceFrom(commant.message, Len(prefix)))

\* seen that PR?  (line 237)
SeenPR(known, p) == known[p.number] # NoPR /\ known[p.number].headID = p.headID

\* (seeded fault) a failure is not final: the job is run again
ClassifyRetry(status, t) ==
    IF status = NoStatus THEN "fresh"
    ELSE IF status.state = "success" THEN "done"
    ELSE IF status.state = "pending" /\ t - status.updatedAt < ciStatusTimeoutMs THEN "active"
    ELSE "stuck"

\* (seeded fault) a pending status of exactly the timeout's age still looks active
ClassifyLate(status, t) ==
    IF status = NoStatus THEN "fresh"
    ELSE IF status.state = "success" \/ status.state = "failure" THEN "done"
    ELSE IF status.state = "pending" /\ t - status.updatedAt <= ciStatusTimeoutMs THEN "active"
    ELSE IF status.state = "pending" THEN "stuck"
    ELSE "none"

\* the if-chain of lines 240-258 on the status read for the pull request
Classify(status, t) ==
    IF status = NoStatus THEN "fresh"
    ELSE IF status.state = "success" \/ status.state = "failure" THEN "done"
    ELSE IF status.state = "pending" /\ t - status.updatedAt < ciStatusTimeoutMs THEN "active"
    ELSE IF status.state = "pending" THEN "stuck"
    ELSE "none"

\* (seeded fault) the two delays are the wrong way round
BackOffSwapped(did) == IF did THEN 120000 ELSE 20000

\* delay(didAnything ? 20000 : 120000)
BackOff(did) == IF did THEN 20000 ELSE 120000

\* the pull request is finished with: on to the next repository, or to the delay
\* that ends the cycle (a repository lists its one open pull request)
NextPR(w, did) ==
    IF ri[w] < Len(repos)
    THEN /\ pc' = [pc EXCEPT ![w] = "poll"]
         /\ ri' = [ri EXCEPT ![w] = @ + 1]
         /\ UNCHANGED delay
    ELSE /\ pc' = [pc EXCEPT ![w] = "delay"]
         /\ delay' = [delay EXCEPT ![w] = BackOff(did)]
         /\ UNCHANGED ri

\* main goes on with the command comments in rest, then with the cache test
Continue(w, rest, known, did) ==
    /\ commants' = [commants EXCEPT ![w] = rest]
    /\ knownPRs' = [knownPRs EXCEPT ![w] = known]
    /\ didAnything' = [didAnything EXCEPT ![w] = did]
    /\ IF rest # <<>>
       THEN pc' = [pc EXCEPT ![w] = "command"] /\ UNCHANGED <<ri, delay>>
       ELSE IF SeenPR(known, pr[w])
       THEN NextPR(w, did)
       ELSE pc' = [pc EXCEPT ![w] = "status"] /\ UNCHANGED <<ri, delay>>

\* the locals of runJob at its call (and after its return)
JobLocals(w, at, how) ==
    /\ jpc' = [jpc EXCEPT ![w] = at]
    /\ via' = [via EXCEPT ![w] = how]
    /\ error' = [error EXCEPT ![w] = NoError]
    /\ caught' = [caught EXCEPT ![w] = ""]
    /\ timeStamp1' = [timeStamp1 EXCEPT ![w] = 0]
    /\ timeStamp2' = [timeStamp2 EXCEPT ![w] = 0]
    /\ timeStamp3' = [timeStamp3 EXCEPT ![w] = 0]
    /\ cp' = [cp EXCEPT ![w] = "none"]
    /\ output' = [output EXCEPT ![w] = ""]
    /\ lastLength' = [lastLength EXCEPT ![w] = 0]
    /\ mutex' = [mutex EXCEPT ![w] = FALSE]
    /\ feedbackTimer' = [feedbackTimer EXCEPT ![w] = FALSE]
    /\ feedbacks' = [feedbacks EXCEPT ![w] = <<>>]
    /\ ticks' = [ticks EXCEPT ![w] = 0]
    /\ wrote' = [wrote EXCEPT ![w] = NoWrite]
    /\ pushed' = [pushed EXCEPT ![w] = "none"]
    /\ aborted' = [aborted EXCEPT ![w] = FALSE]
    /\ moved' = [moved EXCEPT ![w] = ""]
    /\ unnotified' = [unnotified EXCEPT ![w] = FALSE]
    /\ interfered' = [interfered EXCEPT ![w] = FALSE]

\* a job was run for the pull request, or it was found done
Outcome(w) ==
    during' = [during EXCEPT ![w][Repo(w)].pr = pr[w]]

\* the comments of the pull request as main has read them in this cycle
Read(w, read) ==
    during' = [during EXCEPT ![w][Repo(w)].commands = [i \in DOMAIN read |-> read[i].id]]

\* runJob is called: it runs up to its first await
StartJob(w, how) ==
    /\ pc' = [pc EXCEPT ![w] = "job"]
    /\ JobLocals(w, "workspace", how)

\* runJob has returned to main
EndJob(w) == JobLocals(w, "none", "")

\* await ghClient.getPullRequests()
PollRepo(w) ==
    /\ w \in fleet /\ pc[w] = "poll"
    /\ pr' = [pr EXCEPT ![w] = getPullRequests(Repo(w))[1]]
    /\ pc' = [pc EXCEPT ![w] = "comments"]
    /\ UNCHANGED <<runner, supervisor, publisher, remoteVars, fleet, repos, ri, commants, knownPRs, didAnything, delay,
                   during, before, jobVars, runVars, histVars, faults>>

\* await ghClient.getComments(pr), the filter, and the code up to the next await
GetComments(w) ==
    /\ w \in fleet /\ pc[w] = "comments"
    /\ Continue(w, CommandComments(getComments(Repo(w))), knownPRs[w], didAnything[w])
    /\ Read(w, getComments(Repo(w)))
    /\ UNCHANGED <<runner, supervisor, publisher, remoteVars, fleet, repos, pr, before,
                   jobVars, runVars, histVars, faults>>

\* (seeded fault) runJob is called for the restart and not awaited: main goes
\* on with the next comment while the job runs
CommandRestartDetached(w) ==
    /\ w \in fleet /\ pc[w] = "command"
    /\ CommandOf(Head(commants[w])) = "restart"
    /\ comments' = setComment(Repo(w), Head(commants[w]).id, restartDone)
    /\ JobLocals(w, "workspace", "restart")
    /\ Continue(w, Tail(commants[w]), [knownPRs[w] EXCEPT ![pr[w].number] = pr[w]], TRUE)
    /\ UNCHANGED <<runner, supervisor, publisher, now, pulls, statuses, events, blobs,
                   fleet, repos, pr, during, before, faults>>

\* await ghClient.setComment(commant.id, ...) of a restart command, then runJob
CommandRestart(w) ==
    /\ w \in fleet /\ pc[w] = "command"
    /\ CommandOf(Head(commants[w])) = "restart"
    /\ comments' = setComment(Repo(w), Head(commants[w]).id, restartDone)
    /\ StartJob(w, "restart")
    /\ UNCHANGED <<runner, supervisor, publisher, now, pulls, statuses, events, blobs,
                   fleet, repos, ri, pr, commants, knownPRs, didAnything, delay,
                   during, before, faults>>

\* await ghClient.setComment(commant.id, help) of any other command
CommandHelp(w) ==
    /\ w \in fleet /\ pc[w] = "command"
    /\ CommandOf(Head(commants[w])) # "restart"
    /\ comments' = setComment(Repo(w), Head(commants[w]).id, commandHelp)
    /\ Continue(w, Tail(commants[w]), knownPRs[w], didAnything[w])
    /\ UNCHANGED <<runner, supervisor, publisher, now, pulls, statuses, events, blobs, fleet, repos, pr, during, before,
                   jobVars, runVars, histVars, faults>>

\* (seeded fault) a pull request that looks active is stored in knownPRs too
GetStatusCaching(w) ==
    /\ w \in fleet /\ pc[w] = "status"
    /\ LET class == Classify(getJobStatus(pr[w]), now)
       IN  IF class \in {"fresh", "stuck"}
           THEN /\ StartJob(w, class)
                /\ UNCHANGED <<ri, commants, knownPRs, didAnything, delay, during>>
           ELSE /\ knownPRs' = [knownPRs EXCEPT ![w] =
                        IF class \in {"done", "active"} THEN [@ EXCEPT ![pr[w].number] = pr[w]] ELSE @]
                /\ IF class = "done" THEN Outcome(w) ELSE UNCHANGED during
                /\ NextPR(w, didAnything[w])
                /\ UNCHANGED <<commants, didAnything, jobVars, runVars, histVars>>
    /\ UNCHANGED <<runner, supervisor, publisher, remoteVars, fleet, repos, pr, before, faults>>

\* await ghClient.getJobStatus(pr) and the classification
GetStatus(w) ==
    /\ w \in fleet /\ pc[w] = "status"
    /\ LET class == Classify(getJobStatus(pr[w]), now)
       IN  IF class \in {"fresh", "stuck"}
           THEN /\ StartJob(w, class)
                /\ UNCHANGED <<ri, commants, knownPRs, didAnything, delay, during>>
           ELSE /\ knownPRs' = [knownPRs EXCEPT ![w] =
                        IF class = "done" THEN [@ EXCEPT ![pr[w].number] = pr[w]] ELSE @]
                /\ IF class = "done" THEN Outcome(w) ELSE UNCHANGED during
                /\ NextPR(w, didAnything[w])
                /\ UNCHANGED <<commants, didAnything, jobVars, runVars, histVars>>
    /\ UNCHANGED <<runner, supervisor, publisher, remoteVars, fleet, repos, pr, before, faults>>

\* (seeded fault) a job that gave up at a recheck or in its catch is not
\* stored in knownPRs
JobReturnsForgetful(w) ==
    /\ w \in fleet /\ pc[w] = "job" /\ jpc[w] = "done"
    /\ EndJob(w)
    /\ LET known == IF aborted[w] \/ caught[w] # "" THEN knownPRs[w]
                    ELSE [knownPRs[w] EXCEPT ![pr[w].number] = pr[w]]
       IN  IF via[w] = "restart"
           THEN Continue(w, Tail(commants[w]), known, TRUE)
           ELSE /\ knownPRs' = [knownPRs EXCEPT ![w] = known]
                /\ didAnything' = [didAnything EXCEPT ![w] = TRUE]
                /\ NextPR(w, TRUE)
                /\ UNCHANGED commants
    /\ Outcome(w)
    /\ UNCHANGED <<runner, supervisor, publisher, remoteVars, fleet, repos, pr, before, faults>>

\* runJob has returned: knownPRs[pr.number] = pr; didAnything = true
JobReturns(w) ==
    /\ w \in fleet /\ pc[w] = "job" /\ jpc[w] = "done"
    /\ EndJob(w)
    /\ LET known == [knownPRs[w] EXCEPT ![pr[w].number] = pr[w]]
       IN  IF via[w] = "restart"
           THEN Continue(w, Tail(commants[w]), known, TRUE)
           ELSE /\ knownPRs' = [knownPRs EXCEPT ![w] = known]
                /\ didAnything' = [didAnything EXCEPT ![w] = TRUE]
                /\ NextPR(w, TRUE)
                /\ UNCHANGED commants
    /\ Outcome(w)
    /\ UNCHANGED <<runner, supervisor, publisher, remoteVars, fleet, repos, pr, before, faults>>

\* (seeded fault) main has no try ... catch: the exception ends main
MainThrowsOut(w) ==
    /\ w \in fleet /\ pc[w] \in {"poll", "comments", "command", "status"}
    /\ Fault
    /\ pc' = [pc EXCEPT ![w] = "ended"]
    /\ UNCHANGED <<runner, supervisor, publisher, remoteVars, fleet, repos, ri, pr, commants, knownPRs, didAnything,
                   delay, during, before, jobVars, runVars, histVars>>

\* a call awaited by main throws: catch, delay(120000)
MainThrows(w) ==
    /\ w \in fleet /\ pc[w] \in {"poll", "comments", "command", "status"}
    /\ Fault
    /\ pc' = [pc EXCEPT ![w] = "crashed"]
    /\ delay' = [delay EXCEPT ![w] = 120000]
    /\ UNCHANGED <<runner, supervisor, publisher, remoteVars, fleet, repos, ri, pr, commants, knownPRs, didAnything,
                   during, before, jobVars, runVars, histVars>>

\* the delay is over (end of a cycle, or after the catch): the next cycle starts
NextCycle(w) ==
    /\ w \in fleet /\ pc[w] \in {"delay", "crashed"}
    /\ pc' = [pc EXCEPT ![w] = "poll"]
    /\ ri' = [ri EXCEPT ![w] = 1]
    /\ didAnything' = [didAnything EXCEPT ![w] = FALSE]
    /\ before' = [before EXCEPT ![w] = during[w]]
    /\ during' = [during EXCEPT ![w] = [r \in RepoSet |-> NoOutcome]]
    /\ UNCHANGED <<runner, supervisor, publisher, remoteVars, fleet, repos, pr, commants, knownPRs, delay,
                   jobVars, runVars, histVars, faults>>

(***************************************************************************)
(* The job executor: runJob of src/unnamed/part_002, lines 71-192, and     *)
(* runCommand, lines 51-66.                                                *)
(***************************************************************************)
url(w) == "http://account.blob.core.windows.net/autorest-ci/" \o w \o "_job"
urlAR(w) == url(w) \o "?autorefresh"

\* the text the append blob is created with (ends with <pre>)
BlobHeader == "<pre>"

\* `</pre><style>body { background: ... }</style>` of pushFinal
FinalMarker(success) == IF success THEN "</pre>#cfc" ELSE "</pre>#fcc"

\* (seeded fault) the text replaces the content of the blob
pushLogReplace(w, text, ok) ==
    /\ blobs' = [blobs EXCEPT ![w] = IF ok THEN text ELSE @]
    /\ IF ok THEN UNCHANGED faults ELSE Fault

\* pushLog(text): the append succeeds, or it fails and the error is returned
pushLog(w, text, ok) ==
    /\ blobs' = [blobs EXCEPT ![w] = IF ok THEN @ \o text ELSE @]
    /\ IF ok THEN UNCHANGED faults ELSE Fault

commandError == "Error: Command failed: " \o commandText
killedError == commandError \o " (killed)"

\* the n-th chunk the command writes to stdout or stderr
Chunk(n) == ToString(n % 10)

\* (seeded fault) the time of the tests is counted from timeStamp1
SuccessTextFromStart(t1, t2, t3) ==
    "Success (git took " \o ToString(Seconds(t2 - t1)) \o "s, tests took "
        \o ToString(Seconds(t3 - t1)) \o "s)"

\* the description of the success status (line 182)
SuccessText(t1, t2, t3) ==
    "Success (git took " \o ToString(Seconds(t2 - t1)) \o "s, tests took "
        \o ToString(Seconds(t3 - t2)) \o "s)"

\* await ghClient.setPullRequestStatus(pr, state, description, link) succeeds
Write(w, state, description, link) ==
    /\ statuses' = setPullRequestStatus(w, pr[w], state, description, link)
    /\ wrote' = [wrote EXCEPT ![w] = [state |-> state, description |-> description]]
    /\ interfered' = [v \in Workers |->
            interfered[v] \/ (v # w /\ jpc[v] = "running" /\ pr[v].headID = pr[w].headID)]

\* mkdir, createContainerIfNotExists, createAppendBlobFromText; then timeStamp1
Workspace(w) ==
    /\ w \in fleet /\ jpc[w] = "workspace"
    /\ blobs' = [blobs EXCEPT ![w] = BlobHeader]
    /\ timeStamp1' = [timeStamp1 EXCEPT ![w] = now]
    /\ jpc' = [jpc EXCEPT ![w] = "setFetching"]
    /\ UNCHANGED <<runner, supervisor, publisher, now, pulls, statuses, comments, events, loopVars,
                   via, error, caught, timeStamp2, timeStamp3, runVars, histVars, faults>>

\* await ghClient.setPullRequestStatus(pr, "pending", "Fetching")
SetFetching(w) ==
    /\ w \in fleet /\ jpc[w] = "setFetching"
    /\ Write(w, "pending", "Fetching", "")
    /\ jpc' = [jpc EXCEPT ![w] = "git"]
    /\ UNCHANGED <<runner, supervisor, publisher, now, pulls, comments, blobs, events, loopVars,
                   via, error, caught, timeStamp1, timeStamp2, timeStamp3, runVars,
                   pushed, aborted, moved, unnotified, faults>>

\* git init, pull, addRemote, fetch, merge
Git(w) ==
    /\ w \in fleet /\ jpc[w] = "git"
    /\ jpc' = [jpc EXCEPT ![w] = "check1"]
    /\ UNCHANGED <<runner, supervisor, publisher, remoteVars, loopVars,
                   via, error, caught, timeStamp1, timeStamp2, timeStamp3,
                   runVars, histVars, faults>>

\* (seeded fault) the recheck logs the abort and goes on
Check1Through(w) ==
    /\ w \in fleet /\ jpc[w] = "check1"
    /\ jpc' = [jpc EXCEPT ![w] = "setRunning"]
    /\ timeStamp2' = [timeStamp2 EXCEPT ![w] = now]
    /\ aborted' = [aborted EXCEPT ![w] = ~isLastStatusOurs(w, pr[w])]
    /\ UNCHANGED <<runner, supervisor, publisher, remoteVars, loopVars, via, error, caught, timeStamp1, timeStamp3,
                   runVars, wrote, pushed, moved, unnotified, interfered, faults>>

\* recheck if what we're doing still makes sense (line 129); then timeStamp2
Check1(w) ==
    /\ w \in fleet /\ jpc[w] = "check1"
    /\ IF isLastStatusOurs(w, pr[w])
       THEN /\ jpc' = [jpc EXCEPT ![w] = "setRunning"]
            /\ timeStamp2' = [timeStamp2 EXCEPT ![w] = now]
            /\ UNCHANGED aborted
       ELSE /\ jpc' = [jpc EXCEPT ![w] = "done"]
            /\ aborted' = [aborted EXCEPT ![w] = TRUE]
            /\ UNCHANGED timeStamp2
    /\ UNCHANGED <<runner, supervisor, publisher, remoteVars, loopVars, via, error, caught, timeStamp1, timeStamp3,
                   runVars, wrote, pushed, moved, unnotified, interfered, faults>>

\* the status write of line 133, then runCommand, setInterval and
\* await resultPromise
SetRunning(w) ==
    /\ w \in fleet /\ jpc[w] = "setRunning"
    /\ Write(w, "pending", "Running test job", urlAR(w))
    /\ cp' = [cp EXCEPT ![w] = "running"]
    /\ feedbackTimer' = [feedbackTimer EXCEPT ![w] = TRUE]
    /\ jpc' = [jpc EXCEPT ![w] = "running"]
    /\ UNCHANGED <<runner, supervisor, publisher, now, pulls, comments, blobs, events, loopVars,
                   via, error, caught, timeStamp1, timeStamp2, timeStamp3,
                   output, lastLength, mutex, feedbacks, ticks,
                   pushed, aborted, moved, unnotified, faults>>

\* cp.stdout.on("data", ...) and cp.stderr.on("data", ...): output += chunk
Output(w) ==
    /\ w \in fleet /\ cp[w] \in {"running", "killed"}
    /\ Len(output[w]) < MaxOutput
    /\ output' = [output EXCEPT ![w] = @ \o Chunk(Len(@) + 1)]
    /\ UNCHANGED <<runner, supervisor, publisher, remoteVars, loopVars, jobVars,
                   cp, lastLength, mutex, feedbackTimer, feedbacks, ticks, histVars, faults>>

\* (seeded fault) the deadline is twice as long
OverdueLate(w) == now - timeStamp2[w] > 2 * 1000 * timeoutSec

\* Date.now() - timeStamp2 > 1000 * timeoutSec
Overdue(w) == now - timeStamp2[w] > 1000 * timeoutSec

\* (seeded fault) sendFeedback uploads all the output again
sendFeedbackAll(w, by) ==
    [by |-> by, length |-> Len(output[w]), text |-> output[w]]

\* sendFeedback is called: pollOutput() and pushLog(output.slice(lastLength))
sendFeedback(w, by) ==
    [by |-> by, length |-> Len(output[w]), text |-> SliceFrom(output[w], lastLength[w])]

\* (seeded fault) a tick does not look at mutex
TimerTickReentrant(w) ==
    /\ w \in fleet /\ feedbackTimer[w]
    /\ ticks[w] < MaxFlushes
    /\ ticks' = [ticks EXCEPT ![w] = @ + 1]
    /\ mutex' = [mutex EXCEPT ![w] = TRUE]
    /\ feedbacks' = [feedbacks EXCEPT ![w] =
            Append(@, [by |-> "timer", length |-> Len(output[w]),
                       text |-> SliceFrom(output[w], lastLength[w])])]
    /\ UNCHANGED <<runner, supervisor, publisher, remoteVars, loopVars, jobVars,
                   cp, output, lastLength, feedbackTimer, histVars, faults>>

\* feedbackTimer fires: if (mutex) return; mutex = true; await sendFeedback()
TimerTick(w) ==
    /\ w \in fleet /\ feedbackTimer[w]
    /\ ticks[w] < MaxFlushes \/ Overdue(w)
    /\ ticks' = [ticks EXCEPT ![w] = IF @ < MaxFlushes THEN @ + 1 ELSE @]
    /\ IF mutex[w]
       THEN UNCHANGED <<mutex, feedbacks>>
       ELSE /\ mutex' = [mutex EXCEPT ![w] = TRUE]
            /\ feedbacks' = [feedbacks EXCEPT ![w] = Append(@, sendFeedback(w, "timer"))]
    /\ UNCHANGED <<runner, supervisor, publisher, remoteVars, loopVars, jobVars,
                   cp, output, lastLength, feedbackTimer, histVars, faults>>

\* (seeded fault) sendFeedback has no try/catch: the error of a failed append
\* reaches the catch of runJob
FeedbackDoneThrows(w, i, ok) ==
    /\ w \in fleet /\ i \in 1..Len(feedbacks[w])
    /\ LET feedback == feedbacks[w][i]
       IN  /\ pushLog(w, feedback.text, ok)
           /\ pushed' = [pushed EXCEPT ![w] = IF ok THEN "ok" ELSE "failed"]
           /\ lastLength' = [lastLength EXCEPT ![w] = IF ok THEN feedback.length ELSE @]
           /\ cp' = [cp EXCEPT ![w] = IF ok /\ Overdue(w) /\ @ = "running" THEN "killed" ELSE @]
           /\ caught' = [caught EXCEPT ![w] = IF ok THEN @ ELSE "Error: append failed"]
           /\ IF feedback.by = "timer"
              THEN mutex' = [mutex EXCEPT ![w] = ~ok] /\ UNCHANGED jpc
              ELSE jpc' = [jpc EXCEPT ![w] = IF ok THEN "check2" ELSE "stall"]
                   /\ UNCHANGED mutex
    /\ feedbacks' = [feedbacks EXCEPT ![w] =
            SubSeq(@, 1, i - 1) \o SubSeq(@, i + 1, Len(@))]
    /\ UNCHANGED <<runner, supervisor, publisher, now, pulls, statuses, comments, events, loopVars,
                   via, error, timeStamp1, timeStamp2, timeStamp3,
                   output, feedbackTimer, ticks,
                   wrote, aborted, moved, unnotified, interfered>>

\* (seeded fault) lastLength is set before the append is known to have
\* succeeded
FeedbackDoneAdvances(w, i, ok) ==
    /\ w \in fleet /\ i \in 1..Len(feedbacks[w])
    /\ LET feedback == feedbacks[w][i]
       IN  /\ pushLog(w, feedback.text, ok)
           /\ pushed' = [pushed EXCEPT ![w] = IF ok THEN "ok" ELSE "failed"]
           /\ lastLength' = [lastLength EXCEPT ![w] = feedback.length]
           /\ cp' = [cp EXCEPT ![w] = IF Overdue(w) /\ @ = "running" THEN "killed" ELSE @]
           /\ IF feedback.by = "timer"
              THEN mutex' = [mutex EXCEPT ![w] = FALSE] /\ UNCHANGED jpc
              ELSE jpc' = [jpc EXCEPT ![w] = "check2"] /\ UNCHANGED mutex
    /\ feedbacks' = [feedbacks EXCEPT ![w] =
            SubSeq(@, 1, i - 1) \o SubSeq(@, i + 1, Len(@))]
    /\ UNCHANGED <<runner, supervisor, publisher, now, pulls, statuses, comments, events, loopVars,
                   via, error, caught, timeStamp1, timeStamp2, timeStamp3,
                   output, feedbackTimer, ticks,
                   wrote, aborted, moved, unnotified, interfered>>

\* the i-th sendFeedback goes on after its await: lastLength, the timeout
\* check with cancel(), and for a tick mutex = false
FeedbackDone(w, i, ok) ==
    /\ w \in fleet /\ i \in 1..Len(feedbacks[w])
    /\ LET feedback == feedbacks[w][i]
       IN  /\ pushLog(w, feedback.text, ok)
           /\ pushed' = [pushed EXCEPT ![w] = IF ok THEN "ok" ELSE "failed"]
           /\ lastLength' = [lastLength EXCEPT ![w] = IF ok THEN feedback.length ELSE @]
           /\ cp' = [cp EXCEPT ![w] = IF Overdue(w) /\ @ = "running" THEN "killed" ELSE @]
           /\ IF feedback.by = "timer"
              THEN mutex' = [mutex EXCEPT ![w] = FALSE] /\ UNCHANGED jpc
              ELSE jpc' = [jpc EXCEPT ![w] = "check2"] /\ UNCHANGED mutex
    /\ feedbacks' = [feedbacks EXCEPT ![w] =
            SubSeq(@, 1, i - 1) \o SubSeq(@, i + 1, Len(@))]
    /\ UNCHANGED <<runner, supervisor, publisher, now, pulls, statuses, comments, events, loopVars,
                   via, error, caught, timeStamp1, timeStamp2, timeStamp3,
                   output, feedbackTimer, ticks,
                   wrote, aborted, moved, unnotified, interfered>>

\* send final feedback one last time (line 161)
FinalFeedback(w) ==
    /\ feedbacks' = [feedbacks EXCEPT ![w] = Append(@, sendFeedback(w, "final"))]
    /\ jpc' = [jpc EXCEPT ![w] = "finalFlush"]

\* resultPromise resolves with e: clearInterval(feedbackTimer); then the wait
\* for mutex, or at once the final feedback
Resolve(w, e) ==
    /\ cp' = [cp EXCEPT ![w] = "exited"]
    /\ error' = [error EXCEPT ![w] = e]
    /\ feedbackTimer' = [feedbackTimer EXCEPT ![w] = FALSE]
    /\ IF mutex[w]
       THEN jpc' = [jpc EXCEPT ![w] = "waitMutex"] /\ UNCHANGED feedbacks
       ELSE FinalFeedback(w)
    /\ UNCHANGED <<runner, supervisor, publisher, remoteVars, loopVars, via, caught, timeStamp1, timeStamp2, timeStamp3,
                   output, lastLength, mutex, ticks, histVars, faults>>

\* the command ends by itself, well (e is null) or not
CommandExits(w, e) ==
    /\ w \in fleet /\ jpc[w] = "running" /\ cp[w] \in {"running", "killed"}
    /\ Resolve(w, e)

\* the command ends by the SIGKILL of cancel()
CommandKilled(w) ==
    /\ w \in fleet /\ jpc[w] = "running" /\ cp[w] = "killed"
    /\ Resolve(w, killedError)

\* while (mutex) await delay(100) is over
WaitMutex(w) ==
    /\ w \in fleet /\ jpc[w] = "waitMutex"
    /\ ~mutex[w]
    /\ FinalFeedback(w)
    /\ UNCHANGED <<runner, supervisor, publisher, remoteVars, loopVars, via, error, caught, timeStamp1, timeStamp2,
                   timeStamp3, cp, output, lastLength, mutex, feedbackTimer, ticks,
                   histVars, faults>>

\* (seeded fault) the recheck of line 164 logs the abort and goes on
Check2Through(w, ok) ==
    /\ w \in fleet /\ jpc[w] = "check2"
    /\ jpc' = [jpc EXCEPT ![w] = IF error[w] # NoError THEN "setFailure" ELSE "setSuccess"]
    /\ timeStamp3' = [timeStamp3 EXCEPT ![w] = IF error[w] # NoError THEN @ ELSE now]
    /\ pushLog(w, FinalMarker(error[w] = NoError), ok)
    /\ aborted' = [aborted EXCEPT ![w] = ~isLastStatusOurs(w, pr[w])]
    /\ UNCHANGED <<runner, supervisor, publisher, now, pulls, statuses, comments, events, loopVars,
                   via, error, caught, timeStamp1, timeStamp2, runVars,
                   wrote, pushed, moved, unnotified, interfered>>

\* recheck (line 164); then pushFinal (not awaited) and the final status write
Check2(w, ok) ==
    /\ w \in fleet /\ jpc[w] = "check2"
    /\ IF isLastStatusOurs(w, pr[w])
       THEN /\ jpc' = [jpc EXCEPT ![w] = IF error[w] # NoError THEN "setFailure" ELSE "setSuccess"]
            /\ timeStamp3' = [timeStamp3 EXCEPT ![w] = IF error[w] # NoError THEN @ ELSE now]
            /\ pushLog(w, FinalMarker(error[w] = NoError), ok)
            /\ UNCHANGED aborted
       ELSE /\ ok
            /\ jpc' = [jpc EXCEPT ![w] = "done"]
            /\ aborted' = [aborted EXCEPT ![w] = TRUE]
            /\ UNCHANGED <<timeStamp3, blobs, faults>>
    /\ UNCHANGED <<runner, supervisor, publisher, now, pulls, statuses, comments, events, loopVars,
                   via, error, caught, timeStamp1, timeStamp2, runVars,
                   wrote, pushed, moved, unnotified, interfered>>

\* await ghClient.setPullRequestStatus(pr, "failure", "" + error, url)
SetFailure(w) ==
    /\ w \in fleet /\ jpc[w] = "setFailure"
    /\ Write(w, "failure", error[w], url(w))
    /\ jpc' = [jpc EXCEPT ![w] = "done"]
    /\ UNCHANGED <<runner, supervisor, publisher, now, pulls, comments, blobs, events, loopVars,
                   via, error, caught, timeStamp1, timeStamp2, timeStamp3, runVars,
                   pushed, aborted, moved, unnotified, faults>>

\* await ghClient.setPullRequestStatus(pr, "success", `Success (...)`, url)
SetSuccess(w) ==
    /\ w \in fleet /\ jpc[w] = "setSuccess"
    /\ Write(w, "success", SuccessText(timeStamp1[w], timeStamp2[w], timeStamp3[w]), url(w))
    /\ jpc' = [jpc EXCEPT ![w] = "done"]
    /\ UNCHANGED <<runner, supervisor, publisher, now, pulls, comments, blobs, events, loopVars,
                   via, error, caught, timeStamp1, timeStamp2, timeStamp3, runVars,
                   pushed, aborted, moved, unnotified, faults>>

\* what the call awaited at a position throws
ErrorAt(at) ==
    CASE at = "workspace" -> "Error: EACCES: mkdir"
      [] at = "git" -> "Error: merge failed"
      [] OTHER -> "StatusCodeError: 502"

\* the awaits of runJob that can throw
Throwing == {"workspace", "setFetching", "git", "check1", "setRunning",
             "check2", "setFailure", "setSuccess"}

\* a call awaited by runJob throws: the catch of line 184 tries to notify
JobThrows(w) ==
    /\ w \in fleet /\ jpc[w] \in Throwing
    /\ Fault
    /\ caught' = [caught EXCEPT ![w] = ErrorAt(jpc[w])]
    /\ jpc' = [jpc EXCEPT ![w] = "stall"]
    /\ UNCHANGED <<runner, supervisor, publisher, remoteVars, loopVars,
                   via, error, timeStamp1, timeStamp2, timeStamp3, runVars, histVars>>

\* try { await setPullRequestStatus(pr, "pending", "Stall. Job error: " + e) }
Stall(w) ==
    /\ w \in fleet /\ jpc[w] = "stall"
    /\ Write(w, "pending", "Stall. Job error: " \o caught[w], "")
    /\ jpc' = [jpc EXCEPT ![w] = "done"]
    /\ UNCHANGED <<runner, supervisor, publisher, now, pulls, comments, blobs, events, loopVars,
                   via, error, caught, timeStamp1, timeStamp2, timeStamp3, runVars,
                   pushed, aborted, moved, unnotified, faults>>

\* (seeded fault) the failure to notify leaves runJob as an exception, which the
\* catch of main takes
StallThrowsOn(w) ==
    /\ w \in fleet /\ jpc[w] = "stall"
    /\ Fault
    /\ jpc' = [jpc EXCEPT ![w] = "done"]
    /\ unnotified' = [unnotified EXCEPT ![w] = TRUE]
    /\ pc' = [pc EXCEPT ![w] = "crashed"]
    /\ delay' = [delay EXCEPT ![w] = 120000]
    /\ UNCHANGED <<runner, supervisor, publisher, remoteVars, fleet, repos, ri, pr, commants, knownPRs, didAnything,
                   during, before,
                   via, error, caught, timeStamp1, timeStamp2, timeStamp3, runVars,
                   wrote, pushed, aborted, moved, interfered>>

\* ... catch (en): the failure to notify is only logged
StallThrows(w) ==
    /\ w \in fleet /\ jpc[w] = "stall"
    /\ Fault
    /\ jpc' = [jpc EXCEPT ![w] = "done"]
    /\ unnotified' = [unnotified EXCEPT ![w] = TRUE]
    /\ UNCHANGED <<runner, supervisor, publisher, remoteVars, loopVars,
                   via, error, caught, timeStamp1, timeStamp2, timeStamp3, runVars,
                   wrote, pushed, aborted, moved, interfered>>

(***************************************************************************)
(* The worker of src/app.ts, lines 214-436: the variant whose runJob also  *)
(* rechecks wasUpdated.  Where its code is that of the worker above        *)
(* (workspace, "Fetching", isLastStatusOurs before the command,            *)
(* "Running test job", the end of the command, "failure", the stall of the *)
(* catch), the action above stands for it.                                 *)
(***************************************************************************)
\* a === b for the updatedAt of two snapshots: parsePR makes a new Date object
\* for every pull request it parses (src/github.ts, line 12), and objects of two
\* polls are never the same object
SameDate(a, b) == FALSE

\* seen that PR?  (line 408)
AppSeenPR(known, p) ==
    known[p.number] # NoPR /\ SameDate(known[p.number].updatedAt, p.updatedAt)

\* the if-chain of lines 411-429
AppClassify(status, p, t) ==
    IF status = NoStatus THEN "new"
    ELSE IF status.updatedAt < p.updatedAt THEN "updated"
    ELSE IF status.state = "success" \/ status.state = "failure" THEN "done"
    ELSE IF status.state = "pending" /\ t - status.updatedAt < ciStatusTimeoutMs THEN "active"
    ELSE IF status.state = "pending" THEN "stuck"
    ELSE "none"

\* delay(didAnything ? 10000 : 60000)
AppBackOff(did) == IF did THEN 10000 ELSE 60000

AppNextPR(w, did) ==
    IF ri[w] < Len(repos)
    THEN /\ pc' = [pc EXCEPT ![w] = "poll"]
         /\ ri' = [ri EXCEPT ![w] = @ + 1]
         /\ UNCHANGED delay
    ELSE /\ pc' = [pc EXCEPT ![w] = "delay"]
         /\ delay' = [delay EXCEPT ![w] = AppBackOff(did)]
         /\ UNCHANGED ri

\* await ghClient.getPullRequests() and the cache test
AppPollRepo(w) ==
    /\ w \in fleet /\ pc[w] = "poll"
    /\ LET p == getPullRequests(Repo(w))[1]
       IN  /\ pr' = [pr EXCEPT ![w] = p]
           /\ IF AppSeenPR(knownPRs[w], p)
              THEN AppNextPR(w, didAnything[w])
              ELSE pc' = [pc EXCEPT ![w] = "status"] /\ UNCHANGED <<ri, delay>>
    /\ UNCHANGED <<runner, supervisor, publisher, remoteVars, fleet, repos, commants, knownPRs, didAnything,
                   during, before, jobVars, runVars, histVars, faults>>

\* await ghClient.getJobStatus(pr) and the classification
AppGetStatus(w) ==
    /\ w \in fleet /\ pc[w] = "status"
    /\ LET class == AppClassify(getJobStatus(pr[w]), pr[w], now)
       IN  IF class \in {"new", "updated", "stuck"}
           THEN /\ StartJob(w, class)
                /\ UNCHANGED <<ri, knownPRs, didAnything, delay, during>>
           ELSE /\ knownPRs' = [knownPRs EXCEPT ![w] =
                        IF class = "done" THEN [@ EXCEPT ![pr[w].number] = pr[w]] ELSE @]
                /\ IF class = "done" THEN Outcome(w) ELSE UNCHANGED during
                /\ AppNextPR(w, didAnything[w])
                /\ UNCHANGED <<didAnything, jobVars, runVars, histVars>>
    /\ UNCHANGED <<runner, supervisor, publisher, remoteVars, fleet, repos, pr, commants, before, faults>>

\* runJob has returned: knownPRs[pr.number] = pr; didAnything = true
AppJobReturns(w) ==
    /\ w \in fleet /\ pc[w] = "job" /\ jpc[w] = "done"
    /\ EndJob(w)
    /\ knownPRs' = [knownPRs EXCEPT ![w] = [@ EXCEPT ![pr[w].number] = pr[w]]]
    /\ didAnything' = [didAnything EXCEPT ![w] = TRUE]
    /\ AppNextPR(w, TRUE)
    /\ Outcome(w)
    /\ UNCHANGED <<runner, supervisor, publisher, remoteVars, fleet, repos, pr, commants, before, faults>>

\* the delay that ends a cycle is over
AppNextCycle(w) ==
    /\ w \in fleet /\ pc[w] = "delay"
    /\ pc' = [pc EXCEPT ![w] = "poll"]
    /\ ri' = [ri EXCEPT ![w] = 1]
    /\ didAnything' = [didAnything EXCEPT ![w] = FALSE]
    /\ before' = [before EXCEPT ![w] = during[w]]
    /\ during' = [during EXCEPT ![w] = [r \in RepoSet |-> NoOutcome]]
    /\ UNCHANGED <<runner, supervisor, publisher, remoteVars, fleet, repos, pr, commants, knownPRs, delay,
                   jobVars, runVars, histVars, faults>>

\* git clone, checkout, addRemote, fetch, merge (lines 317-325)
AppGit(w) ==
    /\ w \in fleet /\ jpc[w] = "git"
    /\ jpc' = [jpc EXCEPT ![w] = "updated1"]
    /\ UNCHANGED <<runner, supervisor, publisher, remoteVars, loopVars,
                   via, error, caught, timeStamp1, timeStamp2, timeStamp3,
                   runVars, histVars, faults>>

\* if (await ghClient.wasUpdated(pr)) { ...; return; } at position at
AppWasUpdated(w, at, next) ==
    /\ w \in fleet /\ jpc[w] = at
    /\ IF wasUpdated(Repo(w), pr[w])
       THEN /\ jpc' = [jpc EXCEPT ![w] = "done"]
            /\ moved' = [moved EXCEPT ![w] = at]
       ELSE /\ jpc' = [jpc EXCEPT ![w] = next]
            /\ UNCHANGED moved
    /\ UNCHANGED <<runner, supervisor, publisher, remoteVars, loopVars,
                   via, error, caught, timeStamp1, timeStamp2, timeStamp3, runVars,
                   wrote, pushed, aborted, unnotified, interfered, faults>>

\* line 328
AppUpdated1(w) == AppWasUpdated(w, "updated1", "check1")

\* sendFeedback of lines 337-351 goes on after its await
AppFeedbackDone(w, i, ok) ==
    /\ w \in fleet /\ i \in 1..Len(feedbacks[w])
    /\ LET feedback == feedbacks[w][i]
       IN  /\ pushLog(w, feedback.text, ok)
           /\ pushed' = [pushed EXCEPT ![w] = IF ok THEN "ok" ELSE "failed"]
           /\ lastLength' = [lastLength EXCEPT ![w] = IF ok THEN feedback.length ELSE @]
           /\ IF feedback.by = "timer"
              THEN mutex' = [mutex EXCEPT ![w] = FALSE] /\ UNCHANGED jpc
              ELSE jpc' = [jpc EXCEPT ![w] = "updated2"] /\ UNCHANGED mutex
    /\ feedbacks' = [feedbacks EXCEPT ![w] =
            SubSeq(@, 1, i - 1) \o SubSeq(@, i + 1, Len(@))]
    /\ UNCHANGED <<runner, supervisor, publisher, now, pulls, statuses, comments, events, loopVars,
                   via, error, caught, timeStamp1, timeStamp2, timeStamp3,
                   cp, output, feedbackTimer, ticks,
                   wrote, aborted, moved, unnotified, interfered>>

\* line 362
AppUpdated2(w) == AppWasUpdated(w, "updated2", "check2")

\* line 363, then the error or timeStamp3
AppCheck2(w) ==
    /\ w \in fleet /\ jpc[w] = "check2"
    /\ IF isLastStatusOurs(w, pr[w])
       THEN /\ jpc' = [jpc EXCEPT ![w] = IF error[w] # NoError THEN "setFailure" ELSE "setSuccess"]
            /\ timeStamp3' = [timeStamp3 EXCEPT ![w] = IF error[w] # NoError THEN @ ELSE now]
            /\ UNCHANGED aborted
       ELSE /\ jpc' = [jpc EXCEPT ![w] = "done"]
            /\ aborted' = [aborted EXCEPT ![w] = TRUE]
            /\ UNCHANGED timeStamp3
    /\ UNCHANGED <<runner, supervisor, publisher, remoteVars, loopVars, via, error, caught, timeStamp1, timeStamp2,
                   runVars, wrote, pushed, moved, unnotified, interfered, faults>>

\* line 379
AppSetSuccess(w) ==
    /\ w \in fleet /\ jpc[w] = "setSuccess"
    /\ Write(w, "success", SuccessText(timeStamp1[w], timeStamp2[w], timeStamp3[w]), url(w))
    /\ jpc' = [jpc EXCEPT ![w] = "updated3"]
    /\ UNCHANGED <<runner, supervisor, publisher, now, pulls, comments, blobs, events, loopVars,
                   via, error, caught, timeStamp1, timeStamp2, timeStamp3, runVars,
                   pushed, aborted, moved, unnotified, faults>>

\* recheck if we just marked an updated PR as succeeded (line 383)
AppUpdated3(w) ==
    /\ w \in fleet /\ jpc[w] = "updated3"
    /\ IF wasUpdated(Repo(w), pr[w])
       THEN /\ jpc' = [jpc EXCEPT ![w] = "downgrade"]
            /\ moved' = [moved EXCEPT ![w] = "updated3"]
       ELSE /\ jpc' = [jpc EXCEPT ![w] = "done"]
            /\ UNCHANGED moved
    /\ UNCHANGED <<runner, supervisor, publisher, remoteVars, loopVars,
                   via, error, caught, timeStamp1, timeStamp2, timeStamp3, runVars,
                   wrote, pushed, aborted, unnotified, interfered, faults>>

\* (seeded fault) the downgrade is not written
AppDowngradeLost(w) ==
    /\ w \in fleet /\ jpc[w] = "downgrade"
    /\ jpc' = [jpc EXCEPT ![w] = "done"]
    /\ UNCHANGED <<runner, supervisor, publisher, remoteVars, loopVars,
                   via, error, caught, timeStamp1, timeStamp2, timeStamp3, runVars,
                   histVars, faults>>

\* await setPullRequestStatus(pr, "pending", "Stall. Just set status of ...")
AppDowngrade(w) ==
    /\ w \in fleet /\ jpc[w] = "downgrade"
    /\ Write(w, "pending", "Stall. Just set status of an updated PR.", "")
    /\ jpc' = [jpc EXCEPT ![w] = "done"]
    /\ UNCHANGED <<runner, supervisor, publisher, now, pulls, comments, blobs, events, loopVars,
                   via, error, caught, timeStamp1, timeStamp2, timeStamp3, runVars,
                   pushed, aborted, moved, unnotified, faults>>

\* the awaits of this runJob that can throw
AppThrowing == Throwing \cup {"updated1", "updated2", "updated3", "downgrade"}

\* a call awaited by runJob throws: the catch of line 384 tries to notify
AppJobThrows(w) ==
    /\ w \in fleet /\ jpc[w] \in AppThrowing
    /\ Fault
    /\ caught' = [caught EXCEPT ![w] = ErrorAt(jpc[w])]
    /\ jpc' = [jpc EXCEPT ![w] = "stall"]
    /\ UNCHANGED <<runner, supervisor, publisher, remoteVars, loopVars,
                   via, error, timeStamp1, timeStamp2, timeStamp3, runVars, histVars>>


(***************************************************************************)
(* The supervisor: ManagedChildProcess (src/managed-child-process.ts) and  *)
(* the status loop that keeps one child process per job running            *)
(* (src/unnamed/part_003, lines 246-303).  A ManagedChildProcess is a      *)
(* record: proc is the index in procs of the current child process (0 for  *)
(* null), procs are the processes that spawn() has returned so far, and    *)
(* stopped tells of the promise that the last stop() returned.  A child    *)
(* process emits "exit" once at most, when it ends, and "error" when it    *)
(* could not be spawned, killed or sent to; after "error" it may be alive  *)
(* or not, and "exit" may follow or not.                                   *)
(***************************************************************************)
\* processes of one job that end or fail; a later one runs on
MaxSpawns == 2
\* calls of start() on one ManagedChildProcess outside the status loop
MaxStarts == 3

\* addJob(...) of lines 270-271
jobNames == <<"autorest.common", "autorest.modeler">>

\* private proc: ChildProcess | null = null, and no call so far
NoManager ==
    [proc |-> 0, procs |-> <<>>, stopped |-> "none", stopOf |-> 0, starts |-> 0]

\* get running(): this.proc !== null
running(m) == m.proc # 0

\* onExit(): this.proc = null
onExit(m) == [m EXCEPT !.proc = 0]

\* (seeded fault) start() spawns whether a process is running or not
startAlways(m) ==
    [m EXCEPT !.procs = Append(@, [live |-> TRUE, emitted |-> {}, killed |-> FALSE]),
              !.proc = Len(m.procs) + 1]

\* start(): if (!this.running) { const proc = this.proc = this.spawn(); ... }
start(m) ==
    IF ~running(m)
    THEN [m EXCEPT !.procs = Append(@, [live |-> TRUE, emitted |-> {}, killed |-> FALSE]),
                   !.proc = Len(m.procs) + 1]
    ELSE m

\* (seeded fault) the promise of stop() is resolved as soon as kill() was called
stopEager(m) ==
    IF running(m)
    THEN [m EXCEPT !.procs[m.proc].killed = TRUE, !.stopped = "resolved", !.stopOf = m.proc]
    ELSE [m EXCEPT !.stopped = "resolved", !.stopOf = 0]

\* stop(): if (this.running) return new Promise(res => { once("exit", res);
\* once("error", res); this.proc.kill(); }); otherwise the promise is resolved
stop(m) ==
    IF running(m)
    THEN [m EXCEPT !.procs[m.proc].killed = TRUE, !.stopped = "pending", !.stopOf = m.proc]
    ELSE [m EXCEPT !.stopped = "resolved", !.stopOf = 0]

\* the listeners of stop() on the process id: res
stopListener(m, id) ==
    IF m.stopped = "pending" /\ m.stopOf = id THEN [m EXCEPT !.stopped = "resolved"] ELSE m

\* (seeded fault) the listeners of start() call onExit for any process
startListenerAny(m, id) == onExit(m)

\* the listeners of start() on the process id: if (proc === this.proc) this.onExit()
startListener(m, id) == IF id = m.proc THEN onExit(m) ELSE m

\* the process id emits the event: the listener of start() runs, then the one
\* of stop(), which was added later
emit(m, id, event, alive) ==
    LET ended == [m EXCEPT !.procs[id].emitted = @ \cup {event},
                           !.procs[id].live = IF event = "exit" THEN FALSE ELSE @ /\ alive]
    IN  stopListener(startListener(ended, id), id)

\* before main of the supervisor runs: every job was added, none started;
\* parseStatus has not been called
NoSupervisor ==
    [jobs |-> [i \in DOMAIN jobNames |-> NoManager],
     at |-> 1,
     logged |-> <<>>, input |-> <<>>, rawOutput |-> <<>>, yielded |-> <<>>,
     done |-> FALSE, threw |-> FALSE]

\* a caller calls start() of the job
MgrStart(i) ==
    /\ supervisor.jobs[i].starts < MaxStarts
    /\ supervisor' = [supervisor EXCEPT
            !.jobs[i] = [start(@) EXCEPT !.starts = @ + 1]]
    /\ UNCHANGED <<runner, publisher, remoteVars, loopVars, jobVars, runVars, histVars, faults>>

\* a caller calls stop() of the job, when the promise of an earlier call is
\* resolved
MgrStop(i) ==
    /\ supervisor.jobs[i].stopped # "pending"
    /\ supervisor' = [supervisor EXCEPT !.jobs[i] = stop(@)]
    /\ UNCHANGED <<runner, publisher, remoteVars, loopVars, jobVars, runVars, histVars, faults>>

\* a child process of the job emits "exit" or "error"
MgrEmit(i, id, event, alive) ==
    /\ id \in DOMAIN supervisor.jobs[i].procs /\ id <= MaxSpawns
    /\ event \notin supervisor.jobs[i].procs[id].emitted
    /\ supervisor' = [supervisor EXCEPT !.jobs[i] = emit(@, id, event, alive)]
    /\ UNCHANGED <<runner, publisher, remoteVars, loopVars, jobVars, runVars, histVars, faults>>

\* (seeded fault) the status loop prints the job and does not start it
SupSkip ==
    /\ supervisor.at \in DOMAIN jobNames
    /\ supervisor' = [supervisor EXCEPT !.at = @ + 1]
    /\ UNCHANGED <<runner, publisher, remoteVars, loopVars, jobVars, runVars, histVars, faults>>

\* the status loop is at a job: console.log(...); job.start()
SupStart ==
    /\ supervisor.at \in DOMAIN jobNames
    /\ supervisor' = [supervisor EXCEPT !.jobs[supervisor.at] = start(@), !.at = @ + 1]
    /\ UNCHANGED <<runner, publisher, remoteVars, loopVars, jobVars, runVars, histVars, faults>>

\* await delay(1000) is over: the next iteration of the status loop
SupDelay ==
    /\ supervisor.at = Len(jobNames) + 1
    /\ supervisor' = [supervisor EXCEPT !.at = 1]
    /\ UNCHANGED <<runner, publisher, remoteVars, loopVars, jobVars, runVars, histVars, faults>>

(***************************************************************************)
(* The status lines that a job writes to its standard output and the       *)
(* supervisor reads back (src/unnamed/part_003, lines 206-226).  A string  *)
(* is the sequence of its characters; indexes count from 0 as in the code. *)
(* A parsed JSON object is the sequence of its members, <<key, value>>.    *)
(***************************************************************************)
\* statuses logged by one job before the supervisor parses its output
MaxLogged == 2

magicStringBegin == <<"<", "C", "I", "_", "S", "T", "A", "T", "U", "S", ">">>

magicStringEnd == <<"<", "/", "C", "I", "_", "S", "T", "A", "T", "U", "S", ">">>

\* interface CIStatus { commitID: string; status: string; }
CIStatus(commitID, status) ==
    << <<<<"c", "o", "m", "m", "i", "t", "I", "D">>, commitID>>,
       <<<<"s", "t", "a", "t", "u", "s">>, status>> >>

\* String.prototype.indexOf(pat, from), from >= 0: the least index at or after
\* from where pat occurs, or -1
indexOf(s, pat, from) ==
    LET hits == {i \in from..(Len(s) - Len(pat)) :
                    \A k \in 1..Len(pat) : s[i + k] = pat[k]}
    IN  IF hits = {} THEN -1 ELSE CHOOSE i \in hits : \A j \in hits : i <= j

\* String.prototype.substring(a, b): both indexes are clamped to 0..length
\* and swapped when a > b
substring(s, a, b) ==
    LET clamp(x) == IF x < 0 THEN 0 ELSE IF x > Len(s) THEN Len(s) ELSE x
        lo == IF clamp(a) <= clamp(b) THEN clamp(a) ELSE clamp(b)
        hi == IF clamp(a) <= clamp(b) THEN clamp(b) ELSE clamp(a)
    IN  SubSeq(s, lo + 1, hi)

\* String.prototype.slice(a): a negative index counts from the end
slice(s, a) ==
    LET from == IF a < 0 THEN (IF Len(s) + a < 0 THEN 0 ELSE Len(s) + a)
                ELSE IF a > Len(s) THEN Len(s) ELSE a
    IN  SubSeq(s, from + 1, Len(s))

\* the characters of a string as JSON.stringify writes them between quotes
RECURSIVE escaped(_)
escaped(s) ==
    IF s = <<>> THEN <<>>
    ELSE (CASE Head(s) = "\"" -> <<"\\", "\"">>
            [] Head(s) = "\\" -> <<"\\", "\\">>
            [] Head(s) = "\n" -> <<"\\", "n">>
            [] OTHER -> <<Head(s)>>) \o escaped(Tail(s))

\* JSON.stringify of an object whose members are strings
RECURSIVE stringifyMembers(_)
stringifyMembers(members) ==
    IF members = <<>> THEN <<>>
    ELSE <<"\"">> \o escaped(Head(members)[1]) \o <<"\"", ":", "\"">>
            \o escaped(Head(members)[2]) \o <<"\"">>
            \o (IF Len(members) > 1 THEN <<",">> ELSE <<>>)
            \o stringifyMembers(Tail(members))

JSONstringify(object) == <<"{">> \o stringifyMembers(object) \o <<"}">>

\* JSON.parse reads a string literal of text whose opening quote is at
\* position i - 1 (counted from 1): [ok, value, next]
RECURSIVE parseString(_, _, _)
parseString(text, i, acc) ==
    IF i > Len(text) THEN [ok |-> FALSE, value |-> acc, next |-> i]
    ELSE IF text[i] = "\"" THEN [ok |-> TRUE, value |-> acc, next |-> i + 1]
    ELSE IF text[i] = "\n" THEN [ok |-> FALSE, value |-> acc, next |-> i]
    ELSE IF text[i] = "\\"
    THEN IF i + 1 > Len(text) THEN [ok |-> FALSE, value |-> acc, next |-> i]
         ELSE IF text[i + 1] \in {"\"", "\\", "/"}
         THEN parseString(text, i + 2, Append(acc, text[i + 1]))
         ELSE IF text[i + 1] = "n" THEN parseString(text, i + 2, Append(acc, "\n"))
         ELSE [ok |-> FALSE, value |-> acc, next |-> i]
    ELSE parseString(text, i + 1, Append(acc, text[i]))

\* JSON.parse reads the members of an object from position i on
RECURSIVE parseMembers(_, _, _)
parseMembers(text, i, acc) ==
    IF i > Len(text) \/ text[i] # "\"" THEN [ok |-> FALSE, value |-> acc]
    ELSE LET key == parseString(text, i + 1, <<>>)
         IN  IF ~key.ok \/ key.next + 1 > Len(text) \/ text[key.next] # ":"
                \/ text[key.next + 1] # "\""
             THEN [ok |-> FALSE, value |-> acc]
             ELSE LET val == parseString(text, key.next + 2, <<>>)
                      members == Append(acc, <<key.value, val.value>>)
                  IN  IF ~val.ok \/ val.next > Len(text)
                      THEN [ok |-> FALSE, value |-> acc]
                      ELSE IF text[val.next] = "}"
                      THEN [ok |-> val.next = Len(text), value |-> members]
                      ELSE IF text[val.next] = ","
                      THEN parseMembers(text, val.next + 1, members)
                      ELSE [ok |-> FALSE, value |-> acc]

\* JSON.parse of a text without white space: an object whose members are
\* strings is returned (ok), any other text here makes it throw SyntaxError
JSONparse(text) ==
    IF Len(text) < 2 \/ text[1] # "{" THEN [ok |-> FALSE, value |-> <<>>]
    ELSE IF text = <<"{", "}">> THEN [ok |-> TRUE, value |-> <<>>]
    ELSE parseMembers(text, 2, <<>>)

\* logStatus(status): what console.log writes to the standard output
logStatus(status) ==
    magicStringBegin \o JSONstringify(status) \o magicStringEnd \o <<"\n">>

\* one turn of the loop of parseStatus: the generator returns, JSON.parse
\* throws, or a value is yielded and rawOutput is cut
parseStatus(rawOutput) ==
    LET index == indexOf(rawOutput, magicStringBegin, 0)
        end == indexOf(rawOutput, magicStringEnd, index)
        statusText == substring(rawOutput, index + Len(magicStringBegin), end)
    IN  IF index = -1 THEN [done |-> TRUE, threw |-> FALSE, value |-> <<>>, rawOutput |-> rawOutput]
        ELSE [done |-> FALSE, threw |-> ~JSONparse(statusText).ok,
              value |-> JSONparse(statusText).value,
              rawOutput |-> slice(rawOutput, end)]

\* for (const status of parseStatus(msg)): the consumer asks for the next value
ParseStatus ==
    /\ ~supervisor.done /\ ~supervisor.threw
    /\ LET turn == parseStatus(supervisor.rawOutput)
       IN  supervisor' = [supervisor EXCEPT
                !.done = turn.done,
                !.threw = turn.threw,
                !.yielded = IF turn.done \/ turn.threw THEN @ ELSE Append(@, turn.value),
                !.rawOutput = IF turn.done \/ turn.threw THEN @ ELSE turn.rawOutput]
    /\ UNCHANGED <<runner, publisher, remoteVars, loopVars, jobVars, runVars, histVars, faults>>

(***************************************************************************)
(* runCommand of the publisher (src/unnamed/part_003, lines 36-51) and the *)
(* await of its result in runJob (lines 79-80).  runner holds what one     *)
(* call of runCommand closes over: the child process cp, output, what      *)
(* cancel and res are bound to, and r, the values the resolve function of  *)
(* the promise was called with, in order (history).  err is what the       *)
(* callback of exec was called with (history), error is what the await of  *)
(* runJob returned; cancels counts the calls of cancel.                    *)
(***************************************************************************)
\* calls of cancel() on one command
MaxCancels == 2

publishText == "npm install && npm run publish-preview"
\* the err of exec's callback when the command exits with a non-zero code
publishError == "Error: Command failed: " \o publishText
\* the err of exec's callback when the command was ended by a signal
publishKilled == publishError \o " (killed)"
\* what exec throws when it cannot start the command
spawnError == "TypeError: spawn failed"
\* new Error("timeout")
timeoutError == "Error: timeout"

\* a promise nobody resolved yet, and an await that has not returned
Pending == "pending"

\* before runCommand is called
NoRunner ==
    [cp |-> "none", output |-> "", cancel |-> "null", res |-> "nothing",
     r |-> <<>>, err |-> Pending, error |-> Pending, cancels |-> 0]

\* the chunk a stream delivers
Data(stream) == IF stream = "stdout" THEN "o" ELSE "e"

\* the state of the promise: the first call of r settles it, later calls of r
\* have no effect; r is the only function of the executor that is used, so
\* the promise never rejects
resultPromise(run) == IF run.r = <<>> THEN Pending ELSE run.r[1]

\* (seeded fault) res stays what it was
resAgain(run, e) ==
    IF run.res = "resolve"
    THEN [run EXCEPT !.r = Append(@, e)]
    ELSE run

\* let res = (e) => { r(e); res = () => { }; }
res(run, e) ==
    IF run.res = "resolve"
    THEN [run EXCEPT !.r = Append(@, e), !.res = "nothing"]
    ELSE run

\* (seeded fault) cancel = () => cp.kill('SIGKILL')
cancelKills(run) ==
    IF run.cancel = "kill"
    THEN [run EXCEPT !.cp = IF @ = "running" THEN "killed" ELSE @]
    ELSE run

\* cancel = () => { cp.kill('SIGKILL'); res(new Error("timeout")); }, or
\* () => null when exec threw
cancel(run) ==
    IF run.cancel = "kill"
    THEN res([run EXCEPT !.cp = IF @ = "running" THEN "killed" ELSE @], timeoutError)
    ELSE run

\* runCommand(command, cwd): exec starts the command, or throws
runCommand(throws) ==
    /\ runner = NoRunner
    /\ runner' = IF throws
                 THEN res([NoRunner EXCEPT !.res = "resolve"], spawnError)
                 ELSE [NoRunner EXCEPT !.res = "resolve", !.cp = "running", !.cancel = "kill"]
    /\ UNCHANGED <<publisher, supervisor, remoteVars, loopVars, jobVars, runVars, histVars, faults>>

\* cp.stdout.on("data", ...) and cp.stderr.on("data", ...): output += chunk
RunnerData(stream) ==
    /\ runner.cp \in {"running", "killed"}
    /\ Len(runner.output) < MaxOutput
    /\ runner' = [runner EXCEPT !.output = @ \o Data(stream)]
    /\ UNCHANGED <<publisher, supervisor, remoteVars, loopVars, jobVars, runVars, histVars, faults>>

\* the callback of exec: err => res(err || null).  A command that was sent
\* SIGKILL ends with the error of the signal, unless it had ended before
ExecCallback(err) ==
    /\ runner.cp \in {"running", "killed"}
    /\ err = publishKilled => runner.cp = "killed"
    /\ runner' = res([runner EXCEPT !.cp = "exited", !.err = err], err)
    /\ UNCHANGED <<publisher, supervisor, remoteVars, loopVars, jobVars, runVars, histVars, faults>>

\* the caller calls cancel()
Cancel ==
    /\ runner # NoRunner
    /\ runner.cancels < MaxCancels
    /\ runner' = [cancel(runner) EXCEPT !.cancels = @ + 1]
    /\ UNCHANGED <<publisher, supervisor, remoteVars, loopVars, jobVars, runVars, histVars, faults>>

\* const error = await resultPromise returns
AwaitResult ==
    /\ runner.error = Pending
    /\ resultPromise(runner) # Pending
    /\ runner' = [runner EXCEPT !.error = resultPromise(runner)]
    /\ UNCHANGED <<publisher, supervisor, remoteVars, loopVars, jobVars, runVars, histVars, faults>>

(***************************************************************************)
(* The poll loop of the publisher (main of src/unnamed/part_003, lines     *)
(* 137-202), with the comment calls of the client (src/unnamed/part_000,   *)
(* lines 81-111).  A repository has one pull request, which the service    *)
(* lists while it is open.  A comment that was deleted stays in comments   *)
(* as Deleted, which keeps the ids of later comments new.                  *)
(***************************************************************************)
commentIndicatorPublish == "<!--AUTO-GENERATED PUBLISH JOB COMMENT-->\n"
\* line 15, without its two emoji
commentHeader == "# AutoRest automatic publish job"
\* the comment of line 174
willPublish ==
    commentIndicatorPublish \o commentHeader
        \o "\n~~~ Haskell\n> will publish once PR gets merged\n~~~"
targetBranch == "master"

\* what is left of a comment that was deleted
Deleted == "(deleted)"

\* the comment when the publish job has ended (lines 87-96, 124-129)
jobResult(result) == commentIndicatorPublish \o commentHeader \o "\n## " \o result

\* before main has polled; ran lists the comment ids that runJob was called with
NoPublisher ==
    [pc |-> "poll", pr |-> NoPR, comments |-> <<>>, knownOpenPRs |-> <<>>,
     closed |-> 0, commentId |-> 0, ran |-> <<>>]

\* getCommentsWithIndicator(pr, indicator)
getCommentsWithIndicator(r, indicator) ==
    SelectSeq(comments[r], LAMBDA comment :
        comment.message # Deleted /\ StartsWith(comment.message, indicator))

\* the comments after deleteComment(id)
deleteComment(r, id) == setComment(r, id, Deleted)

\* the comments after createComment(pr, message), which returns NextCommentId
createComment(r, message) ==
    [comments EXCEPT ![r] = Append(@, [id |-> NextCommentId, message |-> message])]

\* the repository the publisher polls
PubRepo == githubRepos[1]

\* the open pull requests of the repository, as getPullRequests lists them
PubOpen == IF pulls[PubRepo].state = "open" THEN getPullRequests(PubRepo) ELSE <<>>

\* the known pull requests that are not in the list prs (line 182)
PubClosed(prs) ==
    {n \in DOMAIN publisher.knownOpenPRs : \A i \in DOMAIN prs : prs[i].number # n}

\* await ghClient.getPullRequests() and the tests of lines 166 and 182: main
\* goes to a pull request that is open, not known and targets targetBranch; or
\* to a known pull request that is no longer listed; or the cycle ends
PubPollRepo ==
    /\ publisher.pc = "poll"
    /\ LET prs == PubOpen
       IN  IF prs # <<>> /\ prs[1].number \notin DOMAIN publisher.knownOpenPRs
                /\ prs[1].baseRef = targetBranch
           THEN publisher' = [publisher EXCEPT !.pr = prs[1], !.pc = "cleanup"]
           ELSE IF PubClosed(prs) # {}
           THEN publisher' = [publisher EXCEPT
                    !.closed = CHOOSE n \in PubClosed(prs) : TRUE, !.pc = "refetch"]
           ELSE publisher' = [publisher EXCEPT
                    !.pr = IF prs # <<>> THEN prs[1] ELSE @, !.pc = "delay"]
    /\ UNCHANGED <<runner, supervisor, remoteVars, loopVars, jobVars, runVars, histVars, faults>>

\* try { comments = await getCommentsWithIndicator(...) ... } catch { }
PubGetComments(ok) ==
    /\ publisher.pc = "cleanup"
    /\ IF ok
       THEN /\ LET found == getCommentsWithIndicator(PubRepo, commentIndicatorPublish)
               IN  publisher' = [publisher EXCEPT
                        !.comments = [i \in DOMAIN found |-> found[i].id],
                        !.pc = IF found # <<>> THEN "delete" ELSE "create"]
            /\ UNCHANGED faults
       ELSE /\ Fault
            /\ publisher' = [publisher EXCEPT !.pc = "create"]
    /\ UNCHANGED <<runner, supervisor, remoteVars, loopVars, jobVars, runVars, histVars>>

\* (seeded fault) deleteComment instead of tryDeleteComment: the first delete
\* that fails ends the cleanup
PubDeleteStrict(ok) ==
    /\ publisher.pc = "delete"
    /\ IF ok
       THEN /\ comments' = deleteComment(PubRepo, Head(publisher.comments))
            /\ UNCHANGED faults
            /\ publisher' = [publisher EXCEPT
                    !.comments = Tail(@),
                    !.pc = IF Tail(publisher.comments) # <<>> THEN "delete" ELSE "create"]
       ELSE /\ Fault
            /\ UNCHANGED comments
            /\ publisher' = [publisher EXCEPT !.comments = <<>>, !.pc = "create"]
    /\ UNCHANGED <<runner, supervisor, now, pulls, statuses, blobs, events,
                   loopVars, jobVars, runVars, histVars>>

\* await ghClient.tryDeleteComment(comment.id): a delete that fails is ignored
PubDelete(ok) ==
    /\ publisher.pc = "delete"
    /\ IF ok
       THEN comments' = deleteComment(PubRepo, Head(publisher.comments)) /\ UNCHANGED faults
       ELSE Fault /\ UNCHANGED comments
    /\ publisher' = [publisher EXCEPT
            !.comments = Tail(@),
            !.pc = IF Tail(publisher.comments) # <<>> THEN "delete" ELSE "create"]
    /\ UNCHANGED <<runner, supervisor, now, pulls, statuses, blobs, events,
                   loopVars, jobVars, runVars, histVars>>

\* knownOpenPRs[pr.number] = await ghClient.createComment(pr, ...)
PubCreate ==
    /\ publisher.pc = "create"
    /\ comments' = createComment(PubRepo, willPublish)
    /\ publisher' = [publisher EXCEPT
            !.knownOpenPRs =
                [n \in DOMAIN @ \cup {publisher.pr.number} |->
                    IF n = publisher.pr.number THEN NextCommentId ELSE @[n]],
            !.pc = "delay"]
    /\ UNCHANGED <<runner, supervisor, now, pulls, statuses, blobs, events,
                   loopVars, jobVars, runVars, histVars, faults>>

\* (seeded fault) the entry of knownOpenPRs is kept
PubGetPullRequestKeeping ==
    /\ publisher.pc = "refetch"
    /\ LET p == getPullRequest(PubRepo, publisher.closed)
           commentId == publisher.knownOpenPRs[publisher.closed]
           merged == p.merged /\ p.baseRef = targetBranch
       IN  publisher' = [publisher EXCEPT
                !.pr = p,
                !.commentId = commentId,
                !.ran = IF merged THEN Append(@, commentId) ELSE @,
                !.pc = IF merged THEN "job" ELSE "delay"]
    /\ UNCHANGED <<runner, supervisor, remoteVars, loopVars, jobVars, runVars, histVars, faults>>

\* pr = await ghClient.getPullRequest(prNumber); delete knownOpenPRs[prNumber];
\* if (pr.merged && pr.baseRef === targetBranch) runJob(..., commentId)
PubGetPullRequest ==
    /\ publisher.pc = "refetch"
    /\ LET p == getPullRequest(PubRepo, publisher.closed)
           commentId == publisher.knownOpenPRs[publisher.closed]
           merged == p.merged /\ p.baseRef = targetBranch
       IN  publisher' = [publisher EXCEPT
                !.pr = p,
                !.commentId = commentId,
                !.knownOpenPRs = [n \in DOMAIN @ \ {publisher.closed} |-> @[n]],
                !.ran = IF merged THEN Append(@, commentId) ELSE @,
                !.pc = IF merged THEN "job" ELSE "delay"]
    /\ UNCHANGED <<runner, supervisor, remoteVars, loopVars, jobVars, runVars, histVars, faults>>

\* runJob returns: the command of the job went well or not and the comment
\* tells it, or a call of the job threw and its catch has logged the error
PubJobReturns(result) ==
    /\ publisher.pc = "job"
    /\ IF result = "error"
       THEN Fault /\ UNCHANGED comments
       ELSE comments' = setComment(PubRepo, publisher.commentId, jobResult(result))
                /\ UNCHANGED faults
    /\ publisher' = [publisher EXCEPT !.pc = "delay"]
    /\ UNCHANGED <<runner, supervisor, now, pulls, statuses, blobs, events,
                   loopVars, jobVars, runVars, histVars>>

\* the pull request is closed, merged or not
ClosePR(merged) ==
    /\ Event
    /\ pulls[PubRepo].state = "open"
    /\ pulls' = [pulls EXCEPT ![PubRepo].state = "closed", ![PubRepo].merged = merged]
    /\ UNCHANGED <<runner, supervisor, publisher, now, statuses, comments, blobs,
                   loopVars, jobVars, runVars, histVars, faults>>

\* getPullRequests, createComment or getPullRequest throws: the catch of main
\* (line 196)
PubThrows ==
    /\ publisher.pc \in {"poll", "create", "refetch"}
    /\ Fault
    /\ publisher' = [publisher EXCEPT !.comments = <<>>, !.pc = "crashed"]
    /\ UNCHANGED <<runner, supervisor, remoteVars, loopVars, jobVars, runVars, histVars>>

\* await delay(pollDelaySeconds) is over
PubNextCycle ==
    /\ publisher.pc \in {"delay", "crashed"}
    /\ publisher' = [publisher EXCEPT !.pc = "poll"]
    /\ UNCHANGED <<runner, supervisor, remoteVars, loopVars, jobVars, runVars, histVars, faults>>
(***************************************************************************)
(* Initial states.                                                         *)
(***************************************************************************)
\* a status left behind by a worker that died while its job was running
StaleStatus ==
    [state |-> "pending",
     description |-> sentDescription(DeadWorker, "Running test job"),
     url |-> urlAR(DeadWorker),
     updatedAt |-> 0]

\* the hosting service at time t: every repository has one open pull request,
\* and the head of the first repository's has the status first
Service(first, t) ==
    /\ now = t
    /\ pulls = [r \in RepoSet |-> [number |-> 1, headID |-> Commits(r)[1], updatedAt |-> 0]]
    /\ statuses = [c \in AllCommits |-> IF c = Commits(githubRepos[1])[1] THEN first ELSE NoStatus]
    /\ comments = [r \in RepoSet |-> <<>>]
    /\ events = 0
    /\ faults = 0

\* the workers in ws have been started to poll the repositories rs
Started(ws, rs) ==
    /\ fleet = ws
    /\ repos = rs
    /\ pc = [w \in Workers |-> "poll"]
    /\ ri = [w \in Workers |-> 1]
    /\ pr = [w \in Workers |-> NoPR]
    /\ commants = [w \in Workers |-> <<>>]
    /\ knownPRs = [w \in Workers |-> [n \in PRNumbers |-> NoPR]]
    /\ didAnything = [w \in Workers |-> FALSE]
    /\ delay = [w \in Workers |-> 0]
    /\ during = [w \in Workers |-> [r \in RepoSet |-> NoOutcome]]
    /\ before = [w \in Workers |-> [r \in RepoSet |-> NoOutcome]]

\* no worker has run a job yet
NoJobs ==
    /\ blobs = [w \in Workers |-> ""]
    /\ jpc = [w \in Workers |-> "none"]
    /\ via = [w \in Workers |-> ""]
    /\ error = [w \in Workers |-> NoError]
    /\ caught = [w \in Workers |-> ""]
    /\ timeStamp1 = [w \in Workers |-> 0]
    /\ timeStamp2 = [w \in Workers |-> 0]
    /\ timeStamp3 = [w \in Workers |-> 0]
    /\ cp = [w \in Workers |-> "none"]
    /\ output = [w \in Workers |-> ""]
    /\ lastLength = [w \in Workers |-> 0]
    /\ mutex = [w \in Workers |-> FALSE]
    /\ feedbackTimer = [w \in Workers |-> FALSE]
    /\ feedbacks = [w \in Workers |-> <<>>]
    /\ ticks = [w \in Workers |-> 0]
    /\ wrote = [w \in Workers |-> NoWrite]
    /\ pushed = [w \in Workers |-> "none"]
    /\ aborted = [w \in Workers |-> FALSE]
    /\ moved = [w \in Workers |-> ""]
    /\ unnotified = [w \in Workers |-> FALSE]
    /\ interfered = [w \in Workers |-> FALSE]
    /\ runner = NoRunner
    /\ publisher = NoPublisher

\* ... and the supervisor has not begun
Idle == NoJobs /\ supervisor = NoSupervisor

(***************************************************************************)
(* The actions of a worker, grouped.                                       *)
(***************************************************************************)
Poll(w) ==
    \/ PollRepo(w)
    \/ GetComments(w)
    \/ GetStatus(w)
    \/ JobReturns(w)
    \/ NextCycle(w)

Commands(w) ==
    \/ CommandRestart(w)
    \/ CommandHelp(w)

Fetch(w) ==
    \/ Workspace(w)
    \/ SetFetching(w)
    \/ Git(w)
    \/ Check1(w)
    \/ SetRunning(w)

Feedback(w) ==
    \/ Output(w)
    \/ TimerTick(w)
    \/ WaitMutex(w)

Finish(w) ==
    \/ \E i \in DOMAIN feedbacks[w], ok \in BOOLEAN : FeedbackDone(w, i, ok)
    \/ \E ok \in BOOLEAN : Check2(w, ok)
    \/ SetFailure(w)

Throws(w) ==
    \/ JobThrows(w)
    \/ Stall(w)
    \/ StallThrows(w)

(***************************************************************************)
(* One worker polling one repository, in an environment that does all it   *)
(* can do.                                                                 *)
(***************************************************************************)
Init ==
    /\ \E first \in {NoStatus, StaleStatus} : Service(first, ciStatusTimeoutMs)
    /\ Started({"CIaaaaa"}, <<githubRepos[1]>>)
    /\ Idle

Next ==
    \/ Tick
    \/ \E push \in BOOLEAN : UpdatePR(githubRepos[1], push)
    \/ \E message \in UserCommands : PostComment(githubRepos[1], message)
    \/ \E w \in Workers :
        \/ Poll(w) \/ Commands(w) \/ MainThrows(w)
        \/ Fetch(w) \/ Finish(w) \/ Throws(w)
        \/ \E e \in {NoError, commandError} : CommandExits(w, e)
        \/ SetSuccess(w)

Spec == Init /\ [][Next]_vars

\* the call or the delay that a worker awaits returns, and the worker goes on
Returns(w) ==
    \/ Poll(w) \/ Commands(w)
    \/ Fetch(w) \/ Finish(w) \/ Stall(w)
    \/ \E e \in {NoError, commandError} : CommandExits(w, e)
    \/ SetSuccess(w)

\* every call a worker awaits returns or throws in the end, every delay ends,
\* and every command exits
FairLoop == \A w \in Workers : WF_vars(Returns(w))

\* the same worker, with the progress that the event loop gives it, while
\* users post command comments and calls fail
NextLoop ==
    \/ \E message \in UserCommands : PostComment(githubRepos[1], message)
    \/ \E w \in Workers :
        \/ Poll(w) \/ Commands(w) \/ MainThrows(w)
        \/ Fetch(w) \/ Finish(w) \/ Throws(w)
        \/ \E e \in {NoError, commandError} : CommandExits(w, e)
        \/ SetSuccess(w)

SpecLoop == Init /\ [][NextLoop]_vars /\ FairLoop

(***************************************************************************)
(* One worker and a pull request that has comments when the worker starts  *)
(* and whose status would have it skipped: a success, or a pending status  *)
(* that has just been written.  Users post further commands.               *)
(***************************************************************************)
\* a status left behind by a worker whose job succeeded
DoneStatus ==
    [state |-> "success",
     description |-> sentDescription(DeadWorker, SuccessText(0, 0, 0)),
     url |-> url(DeadWorker),
     updatedAt |-> 0]

\* what users write in the comments of a pull request
UserComments == UserCommands \cup {"LGTM"}

InitCommands ==
    /\ \E first \in {DoneStatus, StaleStatus} :
        /\ now = 0
        /\ pulls = [r \in RepoSet |-> [number |-> 1, headID |-> Commits(r)[1], updatedAt |-> 0]]
        /\ statuses = [c \in AllCommits |->
                IF c = Commits(githubRepos[1])[1] THEN first ELSE NoStatus]
    /\ \E m1, m2 \in UserComments :
        comments = [r \in RepoSet |->
            IF r = githubRepos[1]
            THEN <<[id |-> 1, message |-> m1], [id |-> 2, message |-> m2]>>
            ELSE <<>>]
    /\ events = 0
    /\ faults = 0
    /\ Started({"CIaaaaa"}, <<githubRepos[1]>>)
    /\ Idle

SpecCommands == InitCommands /\ [][NextLoop]_vars


(***************************************************************************)
(* One worker with the progress that the event loop gives it, while the    *)
(* clock advances and calls fail.  The pull request is fresh, or carries   *)
(* the pending status of a worker that died five minutes ago.              *)
(***************************************************************************)
NextReclaim ==
    \/ Tick
    \/ \E w \in Workers :
        \/ Poll(w) \/ MainThrows(w)
        \/ Fetch(w) \/ Finish(w) \/ Throws(w)
        \/ \E e \in {NoError, commandError} : CommandExits(w, e)
        \/ SetSuccess(w)

SpecReclaim == Init /\ [][NextReclaim]_vars /\ FairLoop

(***************************************************************************)
(* One worker and a pull request whose head carries the final status of    *)
(* an earlier job, in an environment that does all it can do.              *)
(***************************************************************************)
InitDone ==
    /\ \E state \in {"success", "failure"} :
            Service([DoneStatus EXCEPT !.state = state], 0)
    /\ Started({"CIaaaaa"}, <<githubRepos[1]>>)
    /\ Idle

SpecDone == InitDone /\ [][Next]_vars

(***************************************************************************)
(* One command of the publisher: runCommand is called once, the command    *)
(* writes to both streams and ends, and the caller may call cancel() at    *)
(* any time after runCommand returned.                                     *)
(***************************************************************************)
InitRunner ==
    /\ Service(NoStatus, 0)
    /\ Started({}, <<githubRepos[1]>>)
    /\ Idle

NextRunner ==
    \/ \E throws \in BOOLEAN : runCommand(throws)
    \/ \E stream \in {"stdout", "stderr"} : RunnerData(stream)
    \/ \E err \in {NoError, publishError, publishKilled} : ExecCallback(err)
    \/ Cancel
    \/ AwaitResult

SpecRunner == InitRunner /\ [][NextRunner]_vars

(***************************************************************************)
(* The publisher and a pull request that targets master or another branch  *)
(* and may carry comments of an earlier publisher, among comments of       *)
(* users.  Users go on commenting, calls fail.                             *)
(***************************************************************************)
\* what the pull request may carry when the publisher starts
OldComments ==
    {<<>>, <<willPublish>>, <<"LGTM", willPublish>>,
     <<commentIndicatorPublish \o "## failed", willPublish>>}

InitPublisher ==
    /\ \E baseRef \in {targetBranch, "dev"}, old \in OldComments :
        /\ pulls = [r \in RepoSet |->
                [number |-> 1, headID |-> Commits(r)[1], updatedAt |-> 0, baseRef |-> baseRef,
                 state |-> "open", merged |-> FALSE]]
        /\ comments = [r \in RepoSet |->
                IF r = PubRepo THEN [i \in DOMAIN old |-> [id |-> i, message |-> old[i]]]
                ELSE <<>>]
    /\ now = 0
    /\ statuses = [c \in AllCommits |-> NoStatus]
    /\ events = 0
    /\ faults = 0
    /\ Started({}, <<PubRepo>>)
    /\ Idle

NextPublisher ==
    \/ \E message \in UserComments : PostComment(PubRepo, message)
    \/ PubPollRepo
    \/ \E ok \in BOOLEAN : PubGetComments(ok)
    \/ \E ok \in BOOLEAN : PubDelete(ok)
    \/ PubCreate
    \/ PubThrows
    \/ PubNextCycle

SpecPublisher == InitPublisher /\ [][NextPublisher]_vars

\* the same, and the pull request is closed at some time
NextClosing ==
    \/ NextPublisher
    \/ \E merged \in BOOLEAN : ClosePR(merged)
    \/ PubGetPullRequest
    \/ \E result \in {"success", "failed", "error"} : PubJobReturns(result)

SpecClosing == InitPublisher /\ [][NextClosing]_vars

(***************************************************************************)
(* One worker polling two repositories, whose pull requests have the same  *)
(* number.  The command of a job ends before feedbackTimer ticks.          *)
(***************************************************************************)
InitRepos ==
    /\ Service(NoStatus, 0)
    /\ Started({"CIaaaaa"}, githubRepos)
    /\ Idle

NextRepos ==
    \/ Tick
    \/ \E w \in Workers :
        \/ Poll(w) \/ MainThrows(w)
        \/ Fetch(w) \/ Finish(w) \/ Throws(w)
        \/ \E e \in {NoError, commandError} : CommandExits(w, e)
        \/ SetSuccess(w)

SpecRepos == InitRepos /\ [][NextRepos]_vars

(***************************************************************************)
(* One ManagedChildProcess whose start() and stop() are called at any time *)
(* while its child processes end or fail.                                  *)
(***************************************************************************)
InitManager ==
    /\ Service(NoStatus, 0)
    /\ Started({}, <<githubRepos[1]>>)
    /\ Idle

NextManager ==
    \/ MgrStart(1)
    \/ MgrStop(1)
    \/ \E id \in 1..MaxSpawns, event \in {"exit", "error"}, alive \in BOOLEAN :
            MgrEmit(1, id, event, alive)

SpecManager == InitManager /\ [][NextManager]_vars

(***************************************************************************)
(* The supervisor: the status loop runs on while the child processes of    *)
(* its jobs end or fail.                                                   *)
(***************************************************************************)
NextSupervisor ==
    \/ SupStart
    \/ SupDelay
    \/ \E i \in DOMAIN jobNames, id \in 1..MaxSpawns, event \in {"exit", "error"},
            alive \in BOOLEAN : MgrEmit(i, id, event, alive)

\* the status loop goes on: the delay ends
FairSupervisor == WF_vars(SupStart \/ SupDelay)

SpecSupervisor == InitManager /\ [][NextSupervisor]_vars /\ FairSupervisor

(***************************************************************************)
(* Two workers polling one repository, whose pull request has a status     *)
(* that a dead worker left behind.  The command of a job ends before       *)
(* feedbackTimer ticks.                                                    *)
(***************************************************************************)
InitFleet ==
    /\ Service(StaleStatus, ciStatusTimeoutMs)
    /\ Started(Workers, <<githubRepos[1]>>)
    /\ Idle

NextFleet ==
    \/ \E w \in Workers :
        \/ Poll(w)
        \/ Fetch(w) \/ Finish(w) \/ Throws(w)
        \/ \E e \in {NoError, commandError} : CommandExits(w, e)
        \/ SetSuccess(w)

SpecFleet == InitFleet /\ [][NextFleet]_vars

(***************************************************************************)
(* A pull request with a final status and two user comments, polled by    *)
(* one worker or by two workers of the same platform, which have the same  *)
(* ciIdentifier.                                                           *)
(***************************************************************************)
InitPeers ==
    /\ now = 0
    /\ pulls = [r \in RepoSet |-> [number |-> 1, headID |-> Commits(r)[1], updatedAt |-> 0]]
    /\ statuses = [c \in AllCommits |->
            IF c = Commits(githubRepos[1])[1] THEN DoneStatus ELSE NoStatus]
    /\ \E m1 \in UserComments, m2 \in UserCommands :
        comments = [r \in RepoSet |->
            IF r = githubRepos[1]
            THEN <<[id |-> 1, message |-> m1], [id |-> 2, message |-> m2]>>
            ELSE <<>>]
    /\ events = 0
    /\ faults = 0
    /\ \E ws \in {{"CIaaaaa"}, Workers} : Started(ws, <<githubRepos[1]>>)
    /\ Idle

NextPeers ==
    \/ NextFleet
    \/ \E w \in Workers : Commands(w)

SpecPeers == InitPeers /\ [][NextPeers]_vars

\* the same fleet while the clock advances
SpecAlive == InitFleet /\ [][Tick \/ NextFleet]_vars

(***************************************************************************)
(* One worker of the variant of src/app.ts polling one repository, whose   *)
(* pull request its author updates.  The command of a job ends before      *)
(* feedbackTimer ticks.                                                    *)
(***************************************************************************)
InitApp ==
    /\ Service(NoStatus, 0)
    /\ Started({"CIaaaaa"}, <<githubRepos[1]>>)
    /\ Idle

NextApp ==
    \/ \E push \in BOOLEAN : UpdatePR(githubRepos[1], push)
    \/ \E w \in Workers :
        \/ AppPollRepo(w) \/ AppGetStatus(w) \/ AppJobReturns(w) \/ AppNextCycle(w)
        \/ Workspace(w) \/ SetFetching(w) \/ AppGit(w) \/ AppUpdated1(w) \/ Check1(w)
        \/ SetRunning(w)
        \/ \E e \in {NoError, commandError} : CommandExits(w, e)
        \/ \E i \in DOMAIN feedbacks[w], ok \in BOOLEAN : AppFeedbackDone(w, i, ok)
        \/ AppUpdated2(w) \/ AppCheck2(w) \/ SetFailure(w) \/ AppSetSuccess(w)
        \/ AppUpdated3(w) \/ AppDowngrade(w)
        \/ AppJobThrows(w) \/ Stall(w) \/ StallThrows(w)

SpecApp == InitApp /\ [][NextApp]_vars

(***************************************************************************)
(* Jobs under way.                                                         *)
(***************************************************************************)
\* the status that a write of w at time t left
StatusOf(w, description, link, t) ==
    [state |-> "pending",
     description |-> sentDescription(w, description),
     url |-> link,
     updatedAt |-> t]

\* the last status write of a job that is at a position
WroteAt(at) ==
    CASE at \in {"workspace", "setFetching"} -> NoWrite
      [] at \in {"git", "check1", "setRunning"} -> [state |-> "pending", description |-> "Fetching"]
      [] OTHER -> [state |-> "pending", description |-> "Running test job"]

\* of the workers in all, those in ws run a job for the pull request of the
\* first repository: the job of w is at the position at[w], started its
\* command at t2[w], and the result of its command is errs[w]
JobsOf(all, ws, at, t2, errs) ==
    /\ fleet = all
    /\ repos = <<githubRepos[1]>>
    /\ pc = [w \in Workers |-> IF w \in ws THEN "job" ELSE "poll"]
    /\ ri = [w \in Workers |-> 1]
    /\ pr = [w \in Workers |-> IF w \in ws THEN pulls[githubRepos[1]] ELSE NoPR]
    /\ commants = [w \in Workers |-> <<>>]
    /\ knownPRs = [w \in Workers |-> [n \in PRNumbers |-> NoPR]]
    /\ didAnything = [w \in Workers |-> FALSE]
    /\ delay = [w \in Workers |-> 0]
    /\ during = [w \in Workers |-> [r \in RepoSet |-> NoOutcome]]
    /\ before = [w \in Workers |-> [r \in RepoSet |-> NoOutcome]]
    /\ blobs = [w \in Workers |-> IF w \in ws THEN BlobHeader ELSE ""]
    /\ jpc = [w \in Workers |-> IF w \in ws THEN at[w] ELSE "none"]
    /\ via = [w \in Workers |-> IF w \in ws THEN "stuck" ELSE ""]
    /\ error = [w \in Workers |-> IF w \in ws THEN errs[w] ELSE NoError]
    /\ caught = [w \in Workers |-> ""]
    /\ timeStamp1 = [w \in Workers |-> IF w \in ws THEN t2[w] ELSE 0]
    /\ timeStamp2 = [w \in Workers |->
            IF w \in ws /\ at[w] \in {"running", "setFailure"} THEN t2[w] ELSE 0]
    /\ timeStamp3 = [w \in Workers |-> 0]
    /\ cp = [w \in Workers |->
            IF w \notin ws THEN "none"
            ELSE IF at[w] = "running" THEN "running"
            ELSE IF at[w] = "setFailure" THEN "exited"
            ELSE "none"]
    /\ output = [w \in Workers |-> ""]
    /\ lastLength = [w \in Workers |-> 0]
    /\ mutex = [w \in Workers |-> FALSE]
    /\ feedbackTimer = [w \in Workers |-> w \in ws /\ at[w] = "running"]
    /\ feedbacks = [w \in Workers |-> <<>>]
    /\ ticks = [w \in Workers |-> 0]
    /\ wrote = [w \in Workers |-> IF w \in ws THEN WroteAt(at[w]) ELSE NoWrite]
    /\ pushed = [w \in Workers |-> IF w \in ws /\ at[w] = "setFailure" THEN "ok" ELSE "none"]
    /\ aborted = [w \in Workers |-> FALSE]
    /\ moved = [w \in Workers |-> ""]
    /\ unnotified = [w \in Workers |-> FALSE]
    /\ interfered = [w \in Workers |-> FALSE]
    /\ runner = NoRunner
    /\ supervisor = NoSupervisor
    /\ publisher = NoPublisher

\* all the workers run a job
JobsAt(ws, at, t2, errs) == JobsOf(ws, ws, at, t2, errs)

(***************************************************************************)
(* A worker starts to poll while the job of another worker runs its        *)
(* command for the pull request, since now.  The clock advances, and the   *)
(* command ends before feedbackTimer ticks.                                *)
(***************************************************************************)
InitBeside ==
    /\ Service(StatusOf("CIbbbbb", "Running test job", urlAR("CIbbbbb"), 0), 0)
    /\ JobsOf(Workers, {"CIbbbbb"},
              [w \in Workers |-> "running"],
              [w \in Workers |-> 0],
              [w \in Workers |-> NoError])

NextBeside ==
    \/ Tick
    \/ \E w \in Workers :
        \/ Poll(w) \/ MainThrows(w)
        \/ Fetch(w) \/ Finish(w) \/ Throws(w)
        \/ \E e \in {NoError, commandError} : CommandExits(w, e)
        \/ SetSuccess(w)

SpecBeside == InitBeside /\ [][NextBeside]_vars

(***************************************************************************)
(* Two workers that both found the status of a dead worker stuck.  The job *)
(* of the first has fetched, or its command has been running, silent, for  *)
(* the time of the deadline; the job of the second is about to write       *)
(* "Fetching".                                                             *)
(***************************************************************************)
InitRun ==
    \E from \in {"check1", "running"} :
        LET t == IF from = "running" THEN 1000 * timeoutSec ELSE ciStatusTimeoutMs
            t2 == IF from = "running" THEN 0 ELSE t
        IN  /\ Service(StatusOf("CIaaaaa",
                        IF from = "running" THEN "Running test job" ELSE "Fetching",
                        IF from = "running" THEN urlAR("CIaaaaa") ELSE "", t2), t)
            /\ JobsAt(Workers,
                      [w \in Workers |-> IF w = "CIaaaaa" THEN from ELSE "setFetching"],
                      [w \in Workers |-> IF w = "CIaaaaa" THEN t2 ELSE t],
                      [w \in Workers |-> NoError])

NextRun ==
    \/ Tick
    \/ \E w \in Workers :
        \/ SetFetching(w) \/ Check1(w) \/ SetRunning(w)
        \/ Feedback(w) \/ Finish(w) \/ Throws(w)
        \/ \E e \in {NoError, commandError} : CommandExits(w, e)
        \/ CommandKilled(w)
        \/ SetSuccess(w)

SpecRun == InitRun /\ [][NextRun]_vars

(***************************************************************************)
(* The same jobs with commands that never end by themselves.  The timer    *)
(* keeps ticking, the calls that are awaited return, a killed command      *)
(* ends.                                                                   *)
(***************************************************************************)
NextHang ==
    \/ Tick
    \/ \E w \in Workers :
        \/ SetFetching(w) \/ Check1(w) \/ SetRunning(w)
        \/ Feedback(w) \/ Finish(w) \/ Throws(w)
        \/ CommandKilled(w)

FairHang ==
    \A w \in Workers :
        /\ WF_vars(TimerTick(w))
        /\ WF_vars(\E i \in DOMAIN feedbacks[w], ok \in BOOLEAN : FeedbackDone(w, i, ok))
        /\ WF_vars(CommandKilled(w))
        /\ WF_vars(WaitMutex(w))
        /\ WF_vars(\E ok \in BOOLEAN : Check2(w, ok))
        /\ WF_vars(SetFailure(w))
        /\ WF_vars(Stall(w) \/ StallThrows(w))

SpecHang == InitRun /\ [][NextHang]_vars /\ FairHang

(***************************************************************************)
(* A job whose command has failed writes the status "failure"; the error   *)
(* of the command carries what the command wrote to stderr.                *)
(***************************************************************************)
\* longest output on stderr
MaxStderr == 100

RECURSIVE Stderr(_)
Stderr(n) == IF n = 0 THEN "" ELSE Stderr(n - 1) \o "x"

InitTrunc ==
    \E v \in Workers, n \in 0..MaxStderr :
        /\ Service(StatusOf(v, "Running test job", urlAR(v), 0), 0)
        /\ JobsAt({v},
                  [w \in Workers |-> "setFailure"],
                  [w \in Workers |-> 0],
                  [w \in Workers |-> commandError \o "\n" \o Stderr(n)])

NextTrunc ==
    \E w \in Workers : SetFailure(w) \/ Throws(w)

SpecTrunc == InitTrunc /\ [][NextTrunc]_vars


(***************************************************************************)
(* The supervisor parses the output of a job: the statuses that the job    *)
(* logged, with other output before, between and after them, or output     *)
(* without a begin marker.                                                 *)
(***************************************************************************)
\* commit ids and states of the logged statuses
StatusValues ==
    {CIStatus(<<"a", "1">>, <<"o", "k">>),
     CIStatus(<<"\"", "\\">>, <<>>),
     CIStatus(magicStringBegin, <<"o", "k">>),
     CIStatus(<<"a">>, magicStringEnd)}

\* output of a job that holds no marker
OtherOutput == {<<>>, <<"l", "o", "g", "\n">>, <<"<", "/", ">", "{", "}">>}

\* output of a job that holds no begin marker
NoBeginOutput == OtherOutput \cup {magicStringEnd, <<"x">> \o magicStringEnd \o <<"{", "}">>}

\* the output of a job that logs the statuses sent, with other[k] written after
\* the k-th of them and other[0] before the first
RECURSIVE Stdout(_, _, _)
Stdout(sent, other, k) ==
    IF k > Len(sent) THEN <<>>
    ELSE logStatus(sent[k]) \o other[k] \o Stdout(sent, other, k + 1)

InitCodec ==
    /\ Service(NoStatus, 0)
    /\ Started({}, <<githubRepos[1]>>)
    /\ NoJobs
    /\ \/ \E n \in 0..MaxLogged :
            \E sent \in [1..n -> StatusValues], other \in [0..n -> OtherOutput] :
                supervisor = [NoSupervisor EXCEPT
                    !.logged = sent,
                    !.input = other[0] \o Stdout(sent, other, 1),
                    !.rawOutput = other[0] \o Stdout(sent, other, 1)]
       \/ \E text \in NoBeginOutput :
            supervisor = [NoSupervisor EXCEPT !.input = text, !.rawOutput = text]

NextCodec == ParseStatus

SpecCodec == InitCodec /\ [][NextCodec]_vars
(***************************************************************************)
(* Properties.                                                             *)
(***************************************************************************)
\* the remote status as the table of the classifier tells it apart
StatusCase(status, t) ==
    IF status = NoStatus THEN "none"
    ELSE IF status.state \in {"success", "failure"} THEN status.state
    ELSE IF status.state # "pending" THEN "other"
    ELSE IF t - status.updatedAt >= ciStatusTimeoutMs THEN "pending, elapsed"
    ELSE "pending, young"

\* the cache of w holds the version p of the pull request
CacheHit(w, p) == knownPRs[w][p.number].headID = p.headID

\* w takes a step that ran a job (TRUE) or skipped the pull request (FALSE)
Run(w) == pc'[w] = "job"
Skip(w) == pc'[w] \in {"poll", "delay"}

C2_NoSecondJob ==
    [][\A w \in Workers :
        (pc[w] # "job" /\ pc'[w] = "job")
            => before[w][Repo(w)] # [pr |-> pr[w], commands |-> during[w][Repo(w)].commands]
    ]_vars

\* a status changes that bears the fingerprint of w afterwards
WritesStatus(w) ==
    \E c \in AllCommits :
        statuses'[c] # statuses[c] /\ StartsWith(statuses'[c].description, statusPrefix(w))

\* C3: once isLastStatusOurs has returned false, at either checkpoint, the job
\* is over: in that step and from then on it writes no status and appends
\* nothing to its blob.
C3_SilentAbort ==
    [][\A w \in Workers :
        aborted'[w] =>
            /\ jpc'[w] = "done"
            /\ ~WritesStatus(w)
            /\ wrote'[w] = wrote[w]
            /\ blobs'[w] = blobs[w]
    ]_vars

\* a job was aborted at the second checkpoint, after its command had ended
C3_Witness ==
    \E w \in Workers : aborted[w] /\ jpc[w] = "done" /\ cp[w] = "exited"

LastWriteIsStall(w) ==
    wrote[w].state = "pending" /\ StartsWith(wrote[w].description, "Stall")

HasMarker(w) ==
    \E success \in BOOLEAN :
        /\ Len(blobs[w]) >= Len(FinalMarker(success))
        /\ SliceFrom(blobs[w], Len(blobs[w]) - Len(FinalMarker(success))) = FinalMarker(success)

\* C6: a job that reclaimed a stuck pull request and during whose command
\* another worker wrote a status does not get past its second checkpoint,
\* where isLastStatusOurs (if the call returns) returns false: the job ends
\* aborted, "Running test job" stays its last status write and no marker is
\* appended to its blob.
C6_ReclaimedTwice ==
    \A w \in Workers :
        (interfered[w] /\ via[w] = "stuck" /\ caught[w] = "")
        => /\ jpc[w] \in {"running", "waitMutex", "finalFlush", "check2", "done"}
           /\ jpc[w] = "done" => aborted[w]
           /\ wrote[w].description = "Running test job"
           /\ ~HasMarker(w)

\* the job of a worker that reclaimed the pull request was aborted at the second
\* checkpoint because another worker had written a status during its command
C6_Witness ==
    \E w \in Workers :
        /\ interfered[w] /\ via[w] = "stuck" /\ aborted[w] /\ jpc[w] = "done"
        /\ ~StartsWith(statuses[pr[w].headID].description, statusPrefix(w))

\* C7: at most one sendFeedback of a job is under way; while one is, ticks of
\* the timer start none; the final one is under way only when the timer is
\* cleared and no tick holds mutex.
C7_OneFlushAtATime ==
    \A w \in Workers :
        /\ Len(feedbacks[w]) <= 1
        /\ mutex[w] <=> (\E i \in DOMAIN feedbacks[w] : feedbacks[w][i].by = "timer")
        /\ jpc[w] = "finalFlush" =>
            /\ ~feedbackTimer[w] /\ ~mutex[w]
            /\ \A i \in DOMAIN feedbacks[w] : feedbacks[w][i].by = "final"

\* the command has ended while the sendFeedback of a tick was under way, later
\* ticks were skipped, and the final sendFeedback is waiting
C7_Witness ==
    \E w \in Workers :
        /\ jpc[w] = "waitMutex" /\ mutex[w] /\ Len(feedbacks[w]) = 1
        /\ ticks[w] = MaxFlushes

C10_Description ==
    \A w \in fleet :
        wrote[w] # NoWrite =>
            LET full == "[" \o w \o "] " \o wrote[w].description
                sent == statuses[pr[w].headID].description
            IN  /\ Len(sent) <= 140
                /\ Len(sent) = (IF Len(full) < 140 THEN Len(full) ELSE 140)
                /\ sent = SubSeq(full, 1, Len(sent))
                /\ SubSeq(sent, 1, Len(w) + 3) = "[" \o w \o "] "

\* a description of more than 140 characters was written and cut
C10_Witness ==
    \E w \in fleet :
        /\ wrote[w].state = "failure"
        /\ Len("[" \o w \o "] " \o wrote[w].description) > 140
        /\ Len(statuses[pr[w].headID].description) = 140

\* the snapshot of a pull request whose head is the commit c
AtCommit(c) == [number |-> 1, headID |-> c, updatedAt |-> 0]

\* every workerID there is: those of the fleet and that of the dead worker
AnyWorker == Workers \cup {DeadWorker}

CleanFreshJob(w) == via[w] = "fresh" /\ caught[w] = "" /\ ~aborted[w]

\* C12: the status writes of a job for a pull request without a status, in
\* which nothing throws, no check fails and the command exits without error,
\* are, in this order, pending "Fetching", pending "Running test job" and
\* success; the status of the commit is then success, and its description tells
\* the seconds from timeStamp1 to timeStamp2 and from timeStamp2 to timeStamp3.
C12_FreshJobWrites ==
    /\ [][\A w \in Workers :
            (CleanFreshJob(w)' /\ error'[w] = NoError /\ wrote'[w] # wrote[w])
            => \/ /\ wrote[w] = NoWrite
                  /\ wrote'[w] = [state |-> "pending", description |-> "Fetching"]
               \/ /\ wrote[w].description = "Fetching"
                  /\ wrote'[w] = [state |-> "pending", description |-> "Running test job"]
               \/ /\ wrote[w].description = "Running test job"
                  /\ wrote'[w].state = "success"
       ]_vars
    /\ [](\A w \in Workers :
            (CleanFreshJob(w) /\ error[w] = NoError /\ jpc[w] = "done")
            => LET status == statuses[pr[w].headID]
                   git == (timeStamp2[w] - timeStamp1[w]) \div 1000
                   tests == (timeStamp3[w] - timeStamp2[w]) \div 1000
               IN  /\ wrote[w].state = "success"
                   /\ status.state = "success"
                   /\ status.description = "[" \o w \o "] Success (git took "
                        \o ToString(git) \o "s, tests took " \o ToString(tests) \o "s)")

\* a job for a pull request without a status has ended with success after
\* fetching had taken time and the tests none
C12_Witness ==
    \E w \in Workers :
        /\ CleanFreshJob(w) /\ jpc[w] = "done" /\ wrote[w].state = "success"
        /\ timeStamp2[w] > timeStamp1[w] /\ timeStamp3[w] = timeStamp2[w]
        /\ statuses[pr[w].headID].state = "success"

C14_FetchFailure ==
    \A w \in Workers :
        (caught[w] = ErrorAt("git") /\ jpc[w] = "done" /\ ~unnotified[w])
        => /\ cp[w] = "none"
           /\ wrote[w] = [state |-> "failure", description |-> ErrorAt("git")]
           /\ statuses[pr[w].headID].state = "failure"

\* the positions of main at which it awaits a call of the GitHub client
MainAwaits == {"poll", "comments", "command", "status"}

C16_BackOff ==
    [][\A w \in Workers :
        /\ (pc[w] # "delay" /\ pc'[w] = "delay")
            => delay'[w] = (IF didAnything'[w] THEN 20000 ELSE 120000)
        /\ (pc[w] \in {"delay", "crashed"} /\ pc'[w] = "poll") => ~didAnything'[w]
        /\ (pc[w] = "job" /\ pc'[w] # "job") => didAnything'[w]
        /\ (pc[w] \notin {"delay", "crashed", "job"} \/ pc'[w] = pc[w])
            => didAnything'[w] = didAnything[w]
    ]_vars

\* a cycle in which the worker only replied to a command with the help text
\* has ended, and main waits the long delay
C16_Witness ==
    \E w \in Workers :
        /\ pc[w] = "delay" /\ delay[w] = 120000 /\ ~didAnything[w]
        /\ during[w][Repo(w)].commands # <<>>
        /\ \E i \in DOMAIN comments[Repo(w)] : comments[Repo(w)][i].message = commandHelp
        /\ faults = 0

\* the comment with the id n of the repository r, as the service holds it
CommentOf(cs, n) == cs[CHOOSE i \in DOMAIN cs : cs[i].id = n]

\* C17: main handles every comment of the pull request that starts with the
\* prefix, in their order.  When the text after the prefix, trimmed, is
\* "restart", the comment is rewritten to the acknowledgement and runJob is
\* called, whatever the cache and the status of the pull request are; for any
\* other text the comment is rewritten to the help table and the step starts no
\* job.  (Stated for the steps in which the call that main awaits returns.)
C17_Commands ==
    [][\A w \in Workers :
        /\ (w \in fleet /\ pc[w] = "comments" /\ pc'[w] # "comments" /\ faults' = faults)
            => LET read == comments[Repo(w)]
                   mine == {i \in DOMAIN read :
                                /\ Len(read[i].message) >= Len(prefix)
                                /\ SubSeq(read[i].message, 1, Len(prefix)) = prefix}
               IN  /\ Len(commants'[w]) = Cardinality(mine)
                   /\ \A k \in DOMAIN commants'[w] :
                        /\ \E i \in mine : commants'[w][k] = read[i]
                        /\ \A l \in DOMAIN commants'[w] :
                            k < l => commants'[w][k].id < commants'[w][l].id
                   /\ (mine # {}) <=> (pc'[w] = "command")
        /\ (w \in fleet /\ pc[w] = "command" /\ pc'[w] # "crashed" /\ faults' = faults
                /\ (pc'[w] # "command" \/ commants'[w] # commants[w]))
            => LET commant == Head(commants[w])
                   text == Trim(SubSeq(commant.message, Len(prefix) + 1, Len(commant.message)))
                   edited == CommentOf(comments'[Repo(w)], commant.id).message
               IN  IF text = "restart"
                   THEN /\ edited = "~~~\n> " \o ciIdentifier \o " restart\n< done\n~~~\n"
                        /\ pc'[w] = "job" /\ jpc'[w] = "workspace" /\ via'[w] = "restart"
                   ELSE /\ edited = commandHelp
                        /\ pc'[w] # "job"
                        /\ commants'[w] = Tail(commants[w])
        /\ (pc[w] = "job" /\ via[w] = "restart" /\ pc'[w] # "job")
            => commants'[w] = Tail(commants[w])
    ]_vars

\* a restart command has started a job for a pull request that the cache holds
\* and whose status is success, after another command had got the help table
C17_Witness ==
    \E w \in Workers :
        /\ pc[w] = "job" /\ via[w] = "restart" /\ jpc[w] = "workspace"
        /\ SeenPR(knownPRs[w], pr[w])
        /\ statuses[pr[w].headID].state = "success"
        /\ \E i \in DOMAIN comments[Repo(w)] : comments[Repo(w)][i].message = commandHelp


\* the caller called cancel() in this step
Cancelled == runner'.cancels = runner.cancels + 1

C19_Result ==
    [][/\ Len(runner'.r) <= 1
       /\ runner'.cp = "exited" => runner'.r # <<>>
       /\ (runner' # NoRunner /\ runner'.cp = "none") => runner'.r = <<spawnError>>
       /\ (runner.r = <<>> /\ runner'.r # <<>>)
            => runner'.r[1] = IF runner = NoRunner THEN spawnError
                              ELSE IF Cancelled THEN timeoutError
                              ELSE runner'.err
       /\ resultPromise(runner') = NoError
            => runner'.cp = "exited" /\ runner'.err = NoError
       /\ (runner'.cp = "exited" /\ runner'.err = NoError /\ runner'.r # <<NoError>>)
            => runner'.r = <<timeoutError>> /\ runner'.cancels > 0
       /\ runner'.error \in {Pending, resultPromise(runner')}
    ]_vars

\* the command was cancelled and then ended with code 0: the result is the
\* timeout error, and the await returned it
C19_Witness ==
    /\ runner.cp = "exited" /\ runner.err = NoError
    /\ runner.r = <<timeoutError>>
    /\ runner.error = timeoutError
    /\ Len(runner.output) = MaxOutput

\* the status of the pull request of the first repository is pending and at
\* least ciStatusTimeoutMs old
StuckPending ==
    LET status == statuses[pulls[githubRepos[1]].headID]
    IN  /\ status.state = "pending"
        /\ now - status.updatedAt >= ciStatusTimeoutMs

\* a worker is at the start of a job for the pull request as it is
JobStarted ==
    \E w \in fleet :
        /\ pc[w] = "job" /\ jpc[w] = "workspace"
        /\ pr[w].headID = pulls[githubRepos[1]].headID

\* C20: when the status of an open pull request is pending and at least
\* ciStatusTimeoutMs old, a worker that keeps polling starts a job for the
\* pull request in the end, unless the status is replaced before.
C20_Reclaimed == StuckPending ~> (JobStarted \/ ~StuckPending)

\* the same for a worker that runs no job and whose cache does not hold
\* the pull request
C20_ReclaimedByOther ==
    (StuckPending /\ \A w \in fleet :
            pc[w] # "job" /\ ~SeenPR(knownPRs[w], pulls[githubRepos[1]]))
        ~> (JobStarted \/ ~StuckPending)

\* a sendFeedback of w went on after an append that failed
AppendFailed(w) == Len(feedbacks'[w]) < Len(feedbacks[w]) /\ faults' = faults + 1

\* C21: an append to the log sink that fails, in a tick of feedbackTimer, in
\* the final feedback or in pushFinal, is not an exception of runJob: the job
\* goes on as after an append that succeeded (a tick releases mutex, the final
\* feedback is followed by the recheck, the recheck by the final status
\* write), and no status is written by the step.  A job that neither aborted
\* nor caught an exception ends with success for a null result and with
\* failure otherwise, whatever became of its appends.
C21_AppendFailure ==
    [][\A w \in fleet :
        /\ AppendFailed(w)
            => /\ caught'[w] = caught[w] /\ error'[w] = error[w]
               /\ statuses' = statuses /\ wrote' = wrote
               /\ blobs' = blobs /\ lastLength' = lastLength
               /\ IF jpc[w] = "finalFlush"
                  THEN jpc'[w] = "check2" /\ mutex' = mutex
                  ELSE jpc'[w] = jpc[w] /\ ~mutex'[w]
               /\ cp'[w] = IF Overdue(w) /\ cp[w] = "running" THEN "killed" ELSE cp[w]
        /\ (jpc[w] = "check2" /\ faults' = faults + 1 /\ jpc'[w] \notin {"check2", "stall"})
            => /\ jpc'[w] = IF error[w] = NoError THEN "setSuccess" ELSE "setFailure"
               /\ blobs' = blobs /\ caught' = caught /\ statuses' = statuses
        /\ (jpc'[w] = "done" /\ caught'[w] = "" /\ ~aborted'[w])
            => wrote'[w].state = IF error'[w] = NoError THEN "success" ELSE "failure"
    ]_vars

\* a job has ended with success although its last feedback could not be
\* appended: the log sink lacks output of the command
C21_Witness ==
    \E w \in fleet :
        /\ jpc[w] = "done" /\ wrote[w].state = "success"
        /\ pushed[w] = "failed"
        /\ lastLength[w] < Len(output[w])

\* the snapshot p is of the pull request of repository r
OfRepo(p, r) == \E i \in DOMAIN Commits(r) : p.headID = Commits(r)[i]

\* C22: an entry of the known-PR cache belongs to one pull request of one
\* repository: a step that stores a snapshot under a number replaces nothing
\* but an older snapshot of the pull request of the same repository, and the
\* entry found under the number of the pull request at hand is of its
\* repository.
C22_CachePerRepo ==
    [][\A w \in fleet : \A n \in PRNumbers :
        /\ (knownPRs'[w][n] # knownPRs[w][n] /\ knownPRs[w][n] # NoPR)
            => \E r \in RepoSet : OfRepo(knownPRs[w][n], r) /\ OfRepo(knownPRs'[w][n], r)
        /\ (pc'[w] \in {"comments", "command", "status"} /\ pr'[w].number = n
                /\ knownPRs'[w][n] # NoPR)
            => OfRepo(knownPRs'[w][n], repos'[ri'[w]])
    ]_vars

\* the job of w writes a status in this step
Writes(w) == wrote'[w] # wrote[w] /\ wrote'[w] # NoWrite

\* C23: the status writes of one run of runJob come in the order of its code:
\* "Fetching" is written before any other status of the run and once;
\* "Running test job" is written only right after "Fetching", success or
\* failure only right after "Running test job", and nothing after them.  The
\* run gets to the write of "Running test job", and to the write of success or
\* failure, only by the recheck before it, which found the last status to be
\* the run's own.  (The catch of runJob writes the stall status, at any
\* point before success or failure is written.)
C23_WriteOrder ==
    [][\A w \in fleet :
        /\ (Writes(w) /\ wrote[w] = NoWrite)
            => /\ wrote'[w].state = "pending"
               /\ \/ wrote'[w].description = "Fetching" /\ jpc[w] = "setFetching"
                  \/ jpc[w] = "stall"
        /\ (Writes(w) /\ wrote'[w].description = "Fetching") => wrote[w] = NoWrite
        /\ (Writes(w) /\ wrote'[w].description = "Running test job")
            => /\ wrote[w] = [state |-> "pending", description |-> "Fetching"]
               /\ jpc[w] = "setRunning"
        /\ (Writes(w) /\ wrote'[w].state \in {"success", "failure"})
            => /\ wrote[w] = [state |-> "pending", description |-> "Running test job"]
               /\ jpc[w] = IF wrote'[w].state = "success" THEN "setSuccess" ELSE "setFailure"
        /\ wrote[w].state \in {"success", "failure"} => ~Writes(w)
        /\ (jpc'[w] = "setRunning" /\ jpc[w] # "setRunning")
            => jpc[w] = "check1" /\ isLastStatusOurs(w, pr[w])
        /\ (jpc'[w] \in {"setSuccess", "setFailure"} /\ jpc[w] # jpc'[w])
            => jpc[w] = "check2" /\ isLastStatusOurs(w, pr[w])
    ]_vars

\* a job has written "Fetching", "Running test job" and success, while the job
\* of another worker for the same commit was aborted by its recheck
C23_Witness ==
    \E w, v \in fleet :
        /\ jpc[w] = "done" /\ wrote[w].state = "success"
        /\ v # w /\ aborted[v] /\ pr[v].headID = pr[w].headID

\* C24: after the recheck of line 164 has passed, the job goes to the write
\* of failure when the result of its command is an error (a non-zero exit or
\* the kill of cancel()) and to the write of success when it is null; the
\* status it then writes has that state and the URL of the blob, and the
\* other of the two is never written.  From its creation to the end of the
\* job the blob only grows: what was appended stays.
C24_Final ==
    [][\A w \in fleet :
        /\ (jpc[w] = "check2" /\ jpc'[w] \notin {"check2", "stall"}
                /\ isLastStatusOurs(w, pr[w]))
            => jpc'[w] = IF error[w] # NoError THEN "setFailure" ELSE "setSuccess"
        /\ (Writes(w) /\ wrote'[w].state \in {"success", "failure"})
            => /\ (wrote'[w].state = "failure") <=> (error[w] # NoError)
               /\ statuses'[pr[w].headID].state = wrote'[w].state
               /\ statuses'[pr[w].headID].url = url(w)
               /\ wrote'[w].state = "failure"
                    => statuses'[pr[w].headID].description = sentDescription(w, error[w])
        /\ (jpc[w] \in {"finalFlush", "check2", "setFailure", "setSuccess"} /\ pc'[w] = "job")
            => error'[w] = error[w]
        /\ (pc[w] = "job" /\ pc'[w] = "job" /\ jpc[w] # "workspace")
            => StartsWith(blobs'[w], blobs[w])
    ]_vars

\* the command of a job was killed by cancel(); the job has written failure,
\* and its blob holds the output that was appended before and the final marker
C24_Witness ==
    \E w \in fleet :
        /\ jpc[w] = "done" /\ wrote[w].state = "failure"
        /\ error[w] = killedError
        /\ output[w] # ""
        /\ blobs[w] = BlobHeader \o output[w] \o FinalMarker(FALSE)

\* the cache of w holds the pull request p at its head
Cached(w, p) == knownPRs[w][p.number] # NoPR /\ knownPRs[w][p.number].headID = p.headID

C26_CacheHit ==
    [][\A w \in fleet :
        (pc[w] = "poll" /\ pc'[w] # "poll"
            /\ knownPRs[w][pr'[w].number] # NoPR
            /\ knownPRs[w][pr'[w].number].updatedAt = pr'[w].updatedAt)
            => pc'[w] # "status"
    ]_vars

\* the command of the job of w runs, within its deadline, for the commit c,
\* and the status of c is the one the job wrote
Alive(w, c) ==
    /\ pc[w] = "job" /\ jpc[w] = "running" /\ cp[w] = "running"
    /\ pr[w].headID = c
    /\ ~Overdue(w)
    /\ statuses[c].description = sentDescription(w, "Running test job")

\* C27: while the command of a job runs within its deadline, a worker that
\* reads the status of the same commit starts no job for it.
C27_Active ==
    [][\A v \in fleet :
        (pc[v] = "status" /\ pc'[v] \notin {"status", "crashed"}
            /\ \E w \in fleet \ {v} : Alive(w, pr[v].headID))
            => pc'[v] # "job"
    ]_vars

\* the comments of the pull request that begin with the publish indicator
PublishComments == getCommentsWithIndicator(PubRepo, commentIndicatorPublish)

\* the publisher is at the pull request for the first time
PubNew == publisher.pc \in {"cleanup", "delete", "create"}

\* C28: the publisher handles a pull request that it does not know and that
\* targets targetBranch, and no other: it lists the comments that begin with
\* the publish indicator and deletes them one by one, going on when a delete
\* (or the listing) fails; then it appends one comment, the placeholder, and
\* stores its id under the number of the pull request, which it thereby
\* knows.  When no call has failed, the placeholder is then the only comment
\* with the indicator.  For a pull request that targets another branch the
\* publisher changes no comment and stores nothing.
C28_NewPR ==
    [][/\ PubNew' => /\ publisher'.pr.baseRef = targetBranch
                     /\ publisher'.pr.number \notin DOMAIN publisher'.knownOpenPRs
       /\ (publisher.pc = "cleanup" /\ publisher'.pc # "cleanup")
            => IF faults' = faults
               THEN /\ publisher'.comments
                        = [i \in DOMAIN PublishComments |-> PublishComments[i].id]
                    /\ publisher'.pc = IF PublishComments = <<>> THEN "create" ELSE "delete"
               ELSE publisher'.pc = "create"
       /\ (publisher.pc = "delete" /\ publisher' # publisher)
            => /\ publisher'.comments = Tail(publisher.comments)
               /\ publisher'.pc = IF Tail(publisher.comments) = <<>> THEN "create" ELSE "delete"
               /\ faults' = faults
                    => \A i \in DOMAIN PublishComments' :
                            PublishComments'[i].id # Head(publisher.comments)
       /\ (publisher.pc = "create" /\ publisher'.pc = "delay")
            => /\ comments'[PubRepo] = Append(comments[PubRepo],
                    [id |-> publisher'.knownOpenPRs[publisher.pr.number],
                     message |-> willPublish])
               /\ \A i \in DOMAIN comments[PubRepo] :
                    comments[PubRepo][i].id # publisher'.knownOpenPRs[publisher.pr.number]
               /\ faults = 0 => Len(PublishComments') = 1
       /\ (publisher' # publisher /\ ~(publisher.pc \in {"delete", "create"}))
            => comments' = comments
       /\ publisher'.knownOpenPRs # publisher.knownOpenPRs => publisher.pc = "create"
       /\ pulls[PubRepo].baseRef # targetBranch
            => publisher'.knownOpenPRs = <<>> /\ (publisher' # publisher => comments' = comments)
    ]_vars

\* the publisher knows the pull request and has ended the cycle; a delete of
\* the cleanup had failed, so the comment of an earlier publisher is still
\* there, next to the placeholder
C28_Witness ==
    /\ publisher.pc = "delay"
    /\ publisher.pr.number \in DOMAIN publisher.knownOpenPRs
    /\ faults > 0
    /\ Len(PublishComments) = 2
    /\ PublishComments[2].id = publisher.knownOpenPRs[publisher.pr.number]

\* runJob of the worker is between its call and its return
InFlight(w) == jpc[w] # "none"

\* C29: a worker has one job at most.  runJob runs only while main awaits it;
\* it is called only when no job of the worker runs, from the handling of a
\* restart command or from the classification; and until it has returned,
\* main reads nothing, edits no comment and moves to no other comment, pull
\* request or repository, so a restart command for the pull request, already
\* read or posted meanwhile, waits for the return.
C29_OneJob ==
    /\ [](\A w \in Workers : InFlight(w) => pc[w] = "job")
    /\ [][\A w \in Workers :
            /\ (jpc'[w] = "workspace" /\ jpc[w] # "workspace")
                => /\ jpc[w] = "none"
                   /\ pc[w] \in {"command", "status"} /\ pc'[w] = "job"
            /\ (pc[w] = "job" /\ pc'[w] # "job")
                => jpc[w] = "done" /\ jpc'[w] = "none"
            /\ (pc[w] = "job" /\ jpc[w] # "done")
                => /\ pc'[w] = "job"
                   /\ ri'[w] = ri[w] /\ pr'[w] = pr[w]
                   /\ commants'[w] = commants[w]
                   /\ knownPRs'[w] = knownPRs[w]
                   /\ didAnything'[w] = didAnything[w]
                   /\ \A i \in DOMAIN comments[repos[ri[w]]] :
                        comments'[repos[ri[w]]][i] = comments[repos[ri[w]]][i]
      ]_vars

\* the job that a restart command forced is running its command, while a
\* second restart command that main has read, and a third that a user has
\* posted since, are still as the users wrote them
C29_Witness ==
    \E w \in Workers :
        /\ pc[w] = "job" /\ via[w] = "restart" /\ jpc[w] = "running"
        /\ commants[w] # <<>>
        /\ CommandOf(commants[w][Len(commants[w])]) = "restart"
        /\ Len(CommandComments(comments[Repo(w)])) = 2

\* main of the worker handles the first of the command comments it has read
Acting(w) ==
    /\ w \in fleet /\ pc[w] = "command"
    /\ pc'[w] = "job" \/ commants'[w] # commants[w]

\* the comment is a command for the workers of this ciIdentifier
IsCommand(cs, n) == StartsWith(CommentOf(cs, n).message, prefix)

\* C30 as stated: no worker handles as a command a comment that a worker has
\* edited already.
C30_Original ==
    [][\A w \in Workers :
        Acting(w) => IsCommand(comments[Repo(w)], Head(commants[w]).id)
    ]_vars

\* C30: the worker that handles a command comment edits it, to the
\* acknowledgement of a restart or to the help table, and neither text starts
\* with the prefix; the acknowledgement is written in the step that calls
\* runJob, before its first await.  A comment that does not start with the
\* prefix is never changed, and the list of commands that a worker reads holds
\* only comments that start with the prefix when it reads them, each once: so
\* a worker handles a comment once at most, and a worker that is alone with
\* its ciIdentifier handles no comment that is edited already.
C30_Once ==
    /\ [](\A w \in Workers : \A k, l \in DOMAIN commants[w] :
            k < l => commants[w][k].id < commants[w][l].id)
    /\ [][\A w \in Workers :
            LET r == repos[ri[w]]
            IN  /\ Acting(w)
                    => LET edited == CommentOf(comments'[r], Head(commants[w]).id).message
                       IN  /\ edited \in {restartDone, commandHelp}
                           /\ ~StartsWith(edited, prefix)
                           /\ pc'[w] = "job" <=> edited = restartDone
                           /\ fleet = {w} => IsCommand(comments[r], Head(commants[w]).id)
                /\ (jpc[w] = "none" /\ jpc'[w] = "workspace" /\ via'[w] = "restart")
                    => /\ Acting(w)
                       /\ CommentOf(comments'[r], Head(commants[w]).id).message = restartDone
                /\ (w \in fleet /\ pc[w] = "comments" /\ pc'[w] \notin {"comments", "crashed"})
                    => \A k \in DOMAIN commants'[w] :
                            IsCommand(comments[r], commants'[w][k].id)
                /\ \A i \in DOMAIN comments[r] :
                        ~StartsWith(comments[r][i].message, prefix)
                            => comments'[r][i] = comments[r][i]
      ]_vars

\* two workers with the same ciIdentifier had both read the restart command
\* before either edited it: each has acknowledged it and runs a forced job
C30_Witness ==
    \E v, w \in fleet :
        /\ v # w
        /\ pc[v] = "job" /\ via[v] = "restart"
        /\ pc[w] = "job" /\ via[w] = "restart"
        /\ Head(commants[v]).id = Head(commants[w]).id
        /\ CommentOf(comments[Repo(w)], Head(commants[w]).id).message = restartDone

(***************************************************************************)
(* Claims C31 to C39.                                                      *)
(***************************************************************************)
\* main of v classifies the pull request it is at, in this step
Classifies(v, class) ==
    /\ v \in fleet /\ pc[v] = "status" /\ pc'[v] \notin {"status", "crashed"}
    /\ Classify(getJobStatus(pr[v]), now) = class

\* C31: the classification "looks active" stores nothing in knownPRs, starts
\* no job and leaves didAnything as it is; knownPRs changes only when runJob
\* returns or when the classification is "done".  So, in a later cycle, when
\* main has read the comments of the pull request and found no command, and
\* no job forced by a restart command has put the pull request in knownPRs, it
\* reads the status and classifies again.
C31_ActiveAgain ==
    [][\A v \in Workers :
        /\ Classifies(v, "active")
            => /\ knownPRs'[v] = knownPRs[v]
               /\ knownPRs'[v][pr[v].number] = NoPR
                    \/ knownPRs'[v][pr[v].number].headID # pr[v].headID
               /\ pc'[v] # "job" /\ jpc'[v] = jpc[v]
               /\ didAnything'[v] = didAnything[v]
               /\ during'[v] = during[v]
        /\ knownPRs'[v] # knownPRs[v]
            => \/ pc[v] = "job" /\ pc'[v] # "job"
               \/ Classifies(v, "done")
        /\ (v \in fleet /\ pc[v] = "comments" /\ pc'[v] \notin {"comments", "crashed"}
                /\ commants'[v] = <<>> /\ ~Cached(v, pr'[v]))
            => pc'[v] = "status"
    ]_vars

\* the worker has been through a cycle in which no call failed and it ran no
\* job, and it is again about to classify the pull request, whose status is
\* still the fresh pending status of the other worker's running job
C31_Witness ==
    \E v \in fleet :
        /\ pc[v] = "status" /\ delay[v] = 120000 /\ faults = 0
        /\ ~Cached(v, pr[v])
        /\ Classify(getJobStatus(pr[v]), now) = "active"
        /\ \E w \in fleet \ {v} : Alive(w, pr[v].headID)

\* runJob of w returns to main in this step
JobEnds(w) == w \in fleet /\ pc[w] = "job" /\ pc'[w] # "job"

\* C32: runJob returns in one of four ways: after its write of success or of
\* failure, after a recheck that found the status of another worker, or from
\* its catch.  In each, main stores the snapshot of the pull request in
\* knownPRs at the return.  A job that is not forced by a restart command
\* starts only for a pull request that knownPRs does not hold at the same
\* head.
C32_CachedAfterJob ==
    [][\A w \in Workers :
        /\ JobEnds(w)
            => /\ \/ wrote[w].state \in {"success", "failure"}
                  \/ aborted[w]
                  \/ caught[w] # ""
               /\ knownPRs'[w][pr[w].number] = pr[w]
               /\ didAnything'[w]
        /\ (w \in fleet /\ jpc[w] = "none" /\ jpc'[w] # "none" /\ via'[w] # "restart")
            => /\ pc[w] = "status"
               /\ ~Cached(w, pr[w])
        /\ (w \in fleet /\ pc[w] = "comments" /\ pc'[w] \notin {"comments", "crashed"}
                /\ commants'[w] = <<>> /\ Cached(w, pr'[w]))
            => pc'[w] # "status"
    ]_vars

\* the first await of a job threw and its catch wrote the stall status; the
\* worker stored the pull request, and a cycle later it has passed it over
\* while the stall status is all that the commit has
C32_Witness ==
    \E w \in fleet :
        /\ pc[w] = "delay" /\ delay[w] = 120000 /\ ~didAnything[w]
        /\ Cached(w, pr[w])
        /\ before[w][Repo(w)].pr = pr[w]
        /\ statuses[pr[w].headID].state = "pending"
        /\ statuses[pr[w].headID].description
                = sentDescription(w, "Stall. Job error: " \o ErrorAt("workspace"))

\* the job of w is between the start of its command and the last recheck
Flushing(w) == jpc[w] \in {"running", "waitMutex", "finalFlush", "check2"}

\* C33: while a job runs its command and flushes, lastLength is between 0 and
\* the length of the captured output, the blob holds after its header exactly
\* the first lastLength characters of the output, and one sendFeedback at
\* most is under way.  A sendFeedback takes the output from lastLength on and
\* remembers the length of the output at that moment; lastLength changes only
\* when an append has succeeded, then to that remembered length, which is not
\* less; when an append has failed, lastLength and the blob stay as they were.
C33_LastLength ==
    /\ [](\A w \in Workers :
            /\ 0 <= lastLength[w] /\ lastLength[w] <= Len(output[w])
            /\ Len(feedbacks[w]) <= 1
            /\ Flushing(w) => blobs[w] = BlobHeader \o SubSeq(output[w], 1, lastLength[w]))
    /\ [][\A w \in Workers :
            /\ Len(feedbacks'[w]) > Len(feedbacks[w])
                => LET feedback == feedbacks'[w][Len(feedbacks'[w])]
                   IN  /\ feedback.length = Len(output[w])
                       /\ feedback.text
                            = SubSeq(output[w], lastLength[w] + 1, Len(output[w]))
            /\ (Len(feedbacks'[w]) < Len(feedbacks[w]) /\ jpc'[w] # "none")
                => LET feedback == feedbacks[w][1]
                   IN  IF faults' = faults
                       THEN /\ lastLength'[w] = feedback.length
                            /\ lastLength'[w] >= lastLength[w]
                            /\ blobs'[w] = blobs[w] \o feedback.text
                       ELSE /\ lastLength'[w] = lastLength[w]
                            /\ blobs'[w] = blobs[w]
            /\ (lastLength'[w] # lastLength[w] /\ jpc'[w] # "none")
                => Len(feedbacks'[w]) < Len(feedbacks[w]) /\ faults' = faults
      ]_vars

\* an append of the job has failed, and the sendFeedback that followed it is
\* under way with all the output, the part that the failed one had taken
\* included
C33_Witness ==
    \E w \in Workers :
        /\ Flushing(w) /\ pushed[w] = "failed" /\ lastLength[w] = 0
        /\ Len(feedbacks[w]) = 1
        /\ feedbacks[w][1].text = output[w] /\ Len(output[w]) = MaxOutput
        /\ ticks[w] = 2

\* main of the publisher calls runJob in this step
PubJobStarts == publisher.pc # "job" /\ publisher'.pc = "job"

Mgr == supervisor.jobs[1]

\* the processes of m that have emitted "exit" or "error"
Gone(m) == {id \in DOMAIN m.procs : m.procs[id].emitted # {}}

\* C35: a ManagedChildProcess spawns only in start() and only when running is
\* false; a call of start() while running is true changes nothing.  running
\* is true exactly when a process was spawned and the latest one has emitted
\* neither "exit" nor "error": that process is proc.  So every process but
\* the latest has emitted one of the two before the next was spawned.
C35_OneChild ==
    /\ [](/\ Mgr.proc \in 0..Len(Mgr.procs)
          /\ running(Mgr) <=> (Mgr.procs # <<>> /\ Mgr.procs[Len(Mgr.procs)].emitted = {})
          /\ running(Mgr) => Mgr.proc = Len(Mgr.procs)
          /\ \A id \in DOMAIN Mgr.procs : id < Len(Mgr.procs) => id \in Gone(Mgr))
    /\ [][/\ Mgr'.procs # Mgr.procs /\ Len(Mgr'.procs) # Len(Mgr.procs)
                => /\ ~running(Mgr)
                   /\ Mgr'.starts = Mgr.starts + 1
                   /\ Len(Mgr'.procs) = Len(Mgr.procs) + 1
                   /\ Mgr'.proc = Len(Mgr'.procs)
                   /\ Mgr'.procs[Mgr'.proc].live
          /\ (Mgr'.starts # Mgr.starts /\ running(Mgr))
                => Mgr'.procs = Mgr.procs /\ Mgr'.proc = Mgr.proc
          /\ (Mgr'.starts # Mgr.starts /\ ~running(Mgr))
                => Len(Mgr'.procs) = Len(Mgr.procs) + 1
      ]_vars

\* start() was called three times: the first call spawned a process, the
\* next changed nothing, and the third, after the exit of the process,
\* spawned the second process, which runs
C35_Witness ==
    /\ Mgr.starts = 3 /\ Len(Mgr.procs) = 2
    /\ Mgr.procs[1].emitted = {"exit"}
    /\ running(Mgr) /\ Mgr.proc = 2

\* the process id of m emits an event in this step
Emits(id) ==
    /\ id \in DOMAIN Mgr.procs
    /\ Mgr'.procs[id].emitted # Mgr.procs[id].emitted

\* C36: when a process that is not the current one emits "exit" or "error",
\* because its other event was handled before or because another process
\* was started since, proc, running and the promise of stop() stay as they
\* are; the event of the current process sets proc to null.
C36_StaleEvents ==
    [][\A id \in DOMAIN Mgr.procs :
        Emits(id)
            => IF id = Mgr.proc
               THEN ~running(Mgr') /\ Mgr.procs[id].emitted = {}
               ELSE /\ Mgr.procs[id].emitted # {}
                    /\ Mgr'.proc = Mgr.proc
                    /\ running(Mgr') <=> running(Mgr)
                    /\ Mgr'.stopped = Mgr.stopped
    ]_vars

\* the first process has emitted "error" and "exit", and the second process,
\* started since, is the current one and runs
C36_Witness ==
    /\ Len(Mgr.procs) = 2 /\ Mgr.proc = 2 /\ running(Mgr)
    /\ Mgr.procs[1].emitted = {"exit", "error"}
    /\ Mgr.procs[2].emitted = {} /\ Mgr.procs[2].live

\* C37: stop() called while no process runs returns a resolved promise and
\* changes nothing else.  Called while a process runs, it kills that process
\* and returns a promise that is pending as long as the process has emitted
\* neither "exit" nor "error"; the promise is resolved in the step in which
\* the process emits the first of them, and running is false then.  The
\* next start() while running is false spawns a new process, which has not
\* been killed and has emitted nothing.
C37_Stop ==
    /\ [](/\ Mgr.stopped = "pending"
                => /\ running(Mgr) /\ Mgr.proc = Mgr.stopOf
                   /\ Mgr.procs[Mgr.stopOf].killed
                   /\ Mgr.procs[Mgr.stopOf].emitted = {}
          /\ (Mgr.stopped = "resolved" /\ Mgr.stopOf # 0)
                => /\ Mgr.procs[Mgr.stopOf].emitted # {}
                   /\ Mgr.proc # Mgr.stopOf)
    /\ [][/\ (Mgr.stopped # "pending" /\ Mgr'.stopped = "pending")
                => /\ running(Mgr)
                   /\ Mgr' = [Mgr EXCEPT !.stopped = "pending", !.stopOf = Mgr.proc,
                                         !.procs[Mgr.proc].killed = TRUE]
          /\ (/\ Mgr.stopped # "pending" /\ Mgr'.stopped = "resolved"
              /\ Mgr.stopped = "none" \/ Mgr'.stopOf # Mgr.stopOf)
                => /\ ~running(Mgr)
                   /\ Mgr' = [Mgr EXCEPT !.stopped = "resolved", !.stopOf = 0]
          /\ (Mgr.stopped = "pending" /\ Mgr'.stopped # "pending")
                => /\ Mgr'.stopped = "resolved"
                   /\ Emits(Mgr.stopOf)
                   /\ ~running(Mgr')
          /\ (Mgr.stopped = "resolved" /\ ~running(Mgr) /\ Mgr'.starts # Mgr.starts)
                => /\ Mgr'.proc = Len(Mgr.procs) + 1
                   /\ Mgr'.procs[Mgr'.proc] = [live |-> TRUE, emitted |-> {}, killed |-> FALSE]
      ]_vars

\* stop() killed the first process and its promise was resolved when the
\* process exited; start() has since spawned the second process, which runs
C37_Witness ==
    /\ Mgr.stopped = "resolved" /\ Mgr.stopOf = 1
    /\ Mgr.procs[1].killed /\ Mgr.procs[1].emitted = {"exit"}
    /\ Len(Mgr.procs) = 2 /\ Mgr.proc = 2 /\ ~Mgr.procs[2].killed

\* the job at index i of jobs
Job(i) == supervisor.jobs[i]

HasBegin == indexOf(supervisor.input, magicStringBegin, 0) # -1

\* the statuses yielded so far are the first of those logged, in their order
YieldedInOrder ==
    /\ Len(supervisor.yielded) <= Len(supervisor.logged)
    /\ supervisor.yielded = SubSeq(supervisor.logged, 1, Len(supervisor.yielded))

\* every turn of parseStatus ends it or leaves less to parse
ParseStatusShortens ==
    [][\/ supervisor'.done \/ supervisor'.threw
       \/ Len(supervisor'.rawOutput) < Len(supervisor.rawOutput)]_vars

\* C39: parseStatus, applied to the output of a job that logged any sequence
\* of CIStatus values with output that holds no marker between them, never
\* throws, every turn of it ends it or shortens the text that is left, what
\* it has yielded is at any time the first of the logged values in their
\* order, and all of them when it has returned; from output without a begin
\* marker it yields nothing.
C39_RoundTrip ==
    /\ [](/\ ~supervisor.threw
          /\ YieldedInOrder
          /\ supervisor.done => supervisor.yielded = supervisor.logged
          /\ ~HasBegin => supervisor.yielded = <<>>)
    /\ ParseStatusShortens

\* no logged status holds the end marker in its commit id or its state
NoEndInside ==
    \A k \in DOMAIN supervisor.logged :
        indexOf(JSONstringify(supervisor.logged[k]), magicStringEnd, 0) = -1

\* the same for jobs whose statuses hold no end marker; when one does,
\* parseStatus throws at that status after it has yielded those before it
C39_WithoutEndInside ==
    /\ [](/\ YieldedInOrder
          /\ ~HasBegin => supervisor.yielded = <<>>
          /\ NoEndInside
                => /\ ~supervisor.threw
                   /\ supervisor.done => supervisor.yielded = supervisor.logged
          /\ supervisor.threw
                => indexOf(JSONstringify(supervisor.logged[Len(supervisor.yielded) + 1]),
                           magicStringEnd, 0) # -1)
    /\ ParseStatusShortens

\* two statuses with a quote, a backslash and a begin marker inside were
\* logged with other output around them, and parseStatus has yielded both
C39_BothYielded ==
    /\ supervisor.done /\ Len(supervisor.yielded) = 2
    /\ supervisor.yielded[1] = CIStatus(<<"\"", "\\">>, <<>>)
    /\ supervisor.yielded[2] = CIStatus(magicStringBegin, <<"o", "k">>)
    /\ supervisor.input # logStatus(supervisor.logged[1]) \o logStatus(supervisor.logged[2])

\* a status with the end marker inside was logged after another one, and
\* parseStatus threw after it had yielded the first
C39_Threw ==
    /\ supervisor.threw /\ Len(supervisor.logged) = 2 /\ Len(supervisor.yielded) = 1
    /\ supervisor.logged[2] = CIStatus(<<"a">>, magicStringEnd)
====
